---------------------------- MODULE Spec2Model ----------------------------
(***************************************************************************)
(* A model of the falconpanel component library (src/components.h, the     *)
(* revision that starts at line 633): button channels, the momentary       *)
(* decorator, the two-position switch, the switching rotary and the        *)
(* rotary encoder, each driven tick by tick as loop() of                   *)
(* src/falconpanel.ino drives them.                                        *)
(*                                                                         *)
(* Every component has a specification of its own (SpecMomentary,          *)
(* SpecOnOff, SpecSwitching, SpecEncoder); the variables of the other      *)
(* components stay at their constructed values.                            *)
(*                                                                         *)
(* Instrumentation.  A button channel record carries, besides the fields   *)
(* of the C++ objects, five counters that the code does not have: the      *)
(* press()/release()/update() calls the channel received and the           *)
(* Gamepad.press()/Gamepad.release() calls it made since the counters      *)
(* were last cleared (at the start of every operation or tick).  The       *)
(* variables whose comment says "history" are observers as well.           *)
(***************************************************************************)
EXTENDS Integers, Sequences, FiniteSets, TLC

\* ------------------------------------------------------------------ bounds
\* Largest MomentaryButton duration that is configured.
MaxDuration == 3

\* update() calls counted after the last press()/release() of a bare button.
MaxUpdates == MaxDuration + 2

\* Durations a MomentaryButton is constructed with (the default is 3).
Durations == 0 .. MaxDuration

\* MomentaryButton's constructor leaves _countdown unset: any int may be there.
UninitCountdown == -1 .. MaxDuration

\* --------------------------------------------------------- button channels
\* A channel is a DxButton (momentary = FALSE) or a MomentaryButton around a
\* DxButton.  pressed is the Gamepad's state of the DirectX button.
NoCalls(ch) ==
  [ch EXCEPT !.pressCalls = 0, !.releaseCalls = 0, !.updateCalls = 0,
             !.sinkPress = 0, !.sinkRelease = 0]

NewDxButton ==
  [momentary |-> FALSE, duration |-> 0, countdown |-> 0, pressed |-> FALSE,
   pressCalls |-> 0, releaseCalls |-> 0, updateCalls |-> 0,
   sinkPress |-> 0, sinkRelease |-> 0]

NewMomentaryButton(duration, garbage) ==
  [momentary |-> TRUE, duration |-> duration, countdown |-> garbage,
   pressed |-> FALSE,
   pressCalls |-> 0, releaseCalls |-> 0, updateCalls |-> 0,
   sinkPress |-> 0, sinkRelease |-> 0]

\* Gamepad.press(_num) / Gamepad.release(_num)
DxPress(ch) == [ch EXCEPT !.pressed = TRUE, !.sinkPress = @ + 1]
DxRelease(ch) == [ch EXCEPT !.pressed = FALSE, !.sinkRelease = @ + 1]

\* A running countdown is not restarted.
MomentaryPress_KeepsRunning(ch) ==
  [DxPress(ch) EXCEPT !.countdown = IF @ > 0 THEN @ ELSE ch.duration]
MomentaryPress(ch) == [DxPress(ch) EXCEPT !.countdown = ch.duration]

\* release() forgets to cancel the countdown.
MomentaryRelease_KeepsCountdown(ch) == DxRelease(ch)
MomentaryRelease(ch) == [DxRelease(ch) EXCEPT !.countdown = 0]

\* The countdown is tested for 0 before it is decremented.
MomentaryUpdate_TestBeforeDecrement(ch) ==
  IF ch.countdown > 0
    THEN IF ch.countdown = 0
           THEN [DxRelease(ch) EXCEPT !.countdown = @ - 1]
           ELSE [ch EXCEPT !.countdown = @ - 1]
    ELSE ch
MomentaryUpdate(ch) ==
  IF ch.countdown > 0
    THEN IF ch.countdown - 1 = 0
           THEN [DxRelease(ch) EXCEPT !.countdown = 0]
           ELSE [ch EXCEPT !.countdown = @ - 1]
    ELSE ch

\* Virtual dispatch of Button::press / release / update.
ButtonPress(ch) ==
  LET c == [ch EXCEPT !.pressCalls = @ + 1]
  IN IF c.momentary THEN MomentaryPress(c) ELSE DxPress(c)
ButtonRelease(ch) ==
  LET c == [ch EXCEPT !.releaseCalls = @ + 1]
  IN IF c.momentary THEN MomentaryRelease(c) ELSE DxRelease(c)
ButtonUpdate(ch) ==
  LET c == [ch EXCEPT !.updateCalls = @ + 1]
  IN IF c.momentary THEN MomentaryUpdate(c) ELSE c

setButton(ch, state) == IF state THEN ButtonPress(ch) ELSE ButtonRelease(ch)

\* ------------------------------------------------ a MomentaryButton alone
VARIABLES
  mb,           \* the MomentaryButton and its inner DxButton
  mbLast,       \* history: the last call, "none" | "press" | "release" | "update"
  mbPhase,      \* history: "new" | "pressed" | "released" | "releasedEarly"
  mbUpdates,    \* history: update() calls since the last press()/release()
  mbReleasedOn, \* history: which of those update() calls called inner.release()
  mbRepressed,  \* history: the last press() came while the countdown of a
                \*   press() before it was running
  mbAuto,       \* history: the inner.release() calls that update() has made
                \*   since the first press() of the burst (a burst is a
                \*   press() and the press() calls that came while a
                \*   countdown was running), counted up to MaxAuto
  mbPressedEver \* history: press() has been called

mbVars ==
  <<mb, mbLast, mbPhase, mbUpdates, mbReleasedOn, mbRepressed, mbAuto,
    mbPressedEver>>

\* More automatic releases than this are counted as this many.
MaxAuto == 2

MBConstruct(d, g) ==
  /\ mb = NewMomentaryButton(d, g)
  /\ mbLast = "none"
  /\ mbPhase = "new"
  /\ mbUpdates = 0
  /\ mbReleasedOn = <<>>
  /\ mbRepressed = FALSE
  /\ mbAuto = 0
  /\ mbPressedEver = FALSE

MBPress ==
  /\ mb' = MomentaryPress(NoCalls(mb))
  /\ mbLast' = "press"
  /\ mbPhase' = "pressed"
  /\ mbUpdates' = 0
  /\ mbReleasedOn' = <<>>
  /\ mbRepressed' = (mbPhase = "pressed" /\ mb.countdown > 0)
  /\ mbAuto' = IF mbRepressed' THEN mbAuto ELSE 0
  /\ mbPressedEver' = TRUE

MBRelease ==
  /\ mb' = MomentaryRelease(NoCalls(mb))
  /\ mbLast' = "release"
  /\ mbPhase' = IF mbPhase = "pressed" /\ mb.countdown > 0
                  THEN "releasedEarly" ELSE "released"
  /\ mbUpdates' = 0
  /\ mbReleasedOn' = <<>>
  /\ mbRepressed' = FALSE
  /\ mbAuto' = 0
  /\ UNCHANGED mbPressedEver

MBUpdate ==
  /\ mbUpdates < MaxUpdates
  /\ mb' = MomentaryUpdate(NoCalls(mb))
  /\ mbLast' = "update"
  /\ mbUpdates' = mbUpdates + 1
  /\ mbReleasedOn' = IF mb'.sinkRelease > 0
                       THEN Append(mbReleasedOn, mbUpdates + 1)
                       ELSE mbReleasedOn
  /\ mbAuto' = IF mb'.sinkRelease > 0 /\ mbAuto < MaxAuto
                 THEN mbAuto + 1 ELSE mbAuto
  /\ UNCHANGED <<mbPhase, mbRepressed, mbPressedEver>>


\* ------------------------------------------------------------ OnOffSwitch
UP == 0
MIDDLE == 1
DOWN == 2
NONE == -1

VARIABLES
  sw,        \* the OnOffSwitch: [buttonUp, buttonDown, last]
  swIn,      \* history: the sample read on the last tick, 0 or 1 (-1 before it)
  swPrevIn,  \* history: the sample read on the tick before that
  swSince    \* history: ticks since the tick on which the sample last changed

swVars == <<sw, swIn, swPrevIn, swSince>>

\* The channels a switch or rotary is wired to: DxButtons or MomentaryButtons.
Channels ==
  {NewDxButton} \cup
  {NewMomentaryButton(d, g) : d \in Durations, g \in UninitCountdown}

\* _last starts as UP.
NewOnOffSwitch_StartsUp(buttonUp, buttonDown) ==
  [buttonUp |-> buttonUp, buttonDown |-> buttonDown, last |-> UP]
NewOnOffSwitch(buttonUp, buttonDown) ==
  [buttonUp |-> buttonUp, buttonDown |-> buttonDown, last |-> NONE]

\* The position is compared with a constant instead of with _last.
OnOffSwitchUpdate_NoEdgeDetect(s, in) ==
  LET up == ButtonUpdate(NoCalls(s.buttonUp))
      down == ButtonUpdate(NoCalls(s.buttonDown))
      current == IF ~in THEN UP ELSE DOWN
  IN [buttonUp |-> setButton(up, current = UP),
      buttonDown |-> setButton(down, current = DOWN),
      last |-> current]
\* The channels' update() is called after the position is set.
OnOffSwitchUpdate_UpdateLast(s, in) ==
  LET current == IF ~in THEN UP ELSE DOWN
      up == IF current # s.last
              THEN setButton(NoCalls(s.buttonUp), current = UP)
              ELSE NoCalls(s.buttonUp)
      down == IF current # s.last
                THEN setButton(NoCalls(s.buttonDown), current = DOWN)
                ELSE NoCalls(s.buttonDown)
  IN [buttonUp |-> ButtonUpdate(up), buttonDown |-> ButtonUpdate(down),
      last |-> current]
\* Only the channel of the new position is called.
OnOffSwitchUpdate_PressOnly(s, in) ==
  LET up == ButtonUpdate(NoCalls(s.buttonUp))
      down == ButtonUpdate(NoCalls(s.buttonDown))
      current == IF ~in THEN UP ELSE DOWN
  IN IF current # s.last
       THEN [buttonUp |-> IF current = UP THEN ButtonPress(up) ELSE up,
             buttonDown |-> IF current = DOWN THEN ButtonPress(down) ELSE down,
             last |-> current]
       ELSE [s EXCEPT !.buttonUp = up, !.buttonDown = down]
\* A sample of false is taken for the Down position.
OnOffSwitchUpdate_FalseIsDown(s, in) ==
  LET up == ButtonUpdate(NoCalls(s.buttonUp))
      down == ButtonUpdate(NoCalls(s.buttonDown))
      current == IF ~in THEN DOWN ELSE UP
  IN IF current # s.last
       THEN [buttonUp |-> setButton(up, current = UP),
             buttonDown |-> setButton(down, current = DOWN),
             last |-> current]
       ELSE [s EXCEPT !.buttonUp = up, !.buttonDown = down]
OnOffSwitchUpdate(s, in) ==
  LET up == ButtonUpdate(NoCalls(s.buttonUp))
      down == ButtonUpdate(NoCalls(s.buttonDown))
      current == IF ~in THEN UP ELSE DOWN
  IN IF current # s.last
       THEN [buttonUp |-> setButton(up, current = UP),
             buttonDown |-> setButton(down, current = DOWN),
             last |-> current]
       ELSE [s EXCEPT !.buttonUp = up, !.buttonDown = down]

SwConstruct(bu, bd) ==
  /\ sw = NewOnOffSwitch(bu, bd)
  /\ swIn = -1
  /\ swPrevIn = -1
  /\ swSince = 0

\* One tick of loop() for a panel that holds one OnOffSwitch.
SwTick ==
  \E in \in BOOLEAN :
    /\ sw' = OnOffSwitchUpdate(sw, in)
    /\ swSince' = IF (IF in THEN 1 ELSE 0) # swIn THEN 0 ELSE swSince + 1
    /\ swSince' <= MaxUpdates
    /\ swIn' = (IF in THEN 1 ELSE 0)
    /\ swPrevIn' = swIn

\* -------------------------------------------------------- SwitchingRotary
\* Analog values are multiples of 1/AnalogRes: the integer v stands for the
\* float v/AnalogRes.  Quotients are kept exact, as pairs <<num, den>>; the
\* pair <<0, 0>> is the NaN that 0.0/0.0 yields, and <<n, 0>> the infinity
\* of the sign of n that n/0.0 yields.
AnalogRes == 10

Samples == 0 .. AnalogRes
Thresholds == 0 .. AnalogRes

IsNaN(q) == q[2] = 0 /\ q[1] = 0
\* The same quotient with a denominator that is not negative
RatNorm(q) == IF q[2] < 0 THEN <<-q[1], -q[2]>> ELSE q
\* a < b and a > b on floats: false as soon as one side is NaN
RatLess(a, b) ==
  /\ ~IsNaN(a) /\ ~IsNaN(b)
  /\ LET x == RatNorm(a)
         y == RatNorm(b)
     IN IF x[2] = 0 /\ y[2] = 0 THEN x[1] < 0 /\ y[1] > 0
        ELSE x[1] * y[2] < y[1] * x[2]
RatEq(a, b) == ~IsNaN(a) /\ ~IsNaN(b) /\ ~RatLess(a, b) /\ ~RatLess(b, a)

\* The Arduino macros min(a,b) ((a)<(b)?(a):(b)) and max(a,b) ((a)>(b)?(a):(b))
MacroMin(a, b) == IF RatLess(a, b) THEN a ELSE b
MacroMax(a, b) == IF RatLess(b, a) THEN a ELSE b

\* The value is handed on as it is.
DxAxisReport_NoClamp(val) == val
\* DxAxis::report: the value handed to the adapter
DxAxisReport(val) == MacroMin(MacroMax(val, <<0, 1>>), <<1, 1>>)

VARIABLES
  sr,      \* the SwitchingRotary: [buttonOn, buttonOff, last, threshold,
           \*   axis: the value last handed to the axis adapter,
           \*   reports: report() calls of the last tick (instrumentation)]
  srVal,   \* history: the sample of the last tick (-AnalogRes, the -1.0 that
           \*   _last starts with, before the first one)
  srPrev   \* history: the sample of the tick before the last one

srVars == <<sr, srVal, srPrev>>

NewSwitchingRotary(buttonOn, buttonOff, threshold) ==
  [buttonOn |-> buttonOn, buttonOff |-> buttonOff,
   last |-> -AnalogRes, threshold |-> threshold,
   axis |-> <<0, 1>>, reports |-> 0]

\* The value update() passes to _dxAxis->report
SwitchingRotaryScaled_NoOffset(val, threshold) ==
  IF val >= threshold THEN <<val, AnalogRes - threshold>> ELSE <<0, 1>>
SwitchingRotaryScaled(val, threshold) ==
  IF val >= threshold
    THEN <<val - threshold, AnalogRes - threshold>>
    ELSE <<0, 1>>

\* _last = val is missing.
SwitchingRotaryUpdate_KeepsLast(s, val) ==
  LET on == ButtonUpdate(NoCalls(s.buttonOn))
      off == ButtonUpdate(NoCalls(s.buttonOff))
      rising == val >= s.threshold /\ s.last < s.threshold
      falling == ~rising /\ val <= s.threshold /\ s.last > s.threshold
  IN [s EXCEPT
        !.buttonOn = IF rising THEN ButtonPress(on)
                     ELSE IF falling THEN ButtonRelease(on) ELSE on,
        !.buttonOff = IF rising THEN ButtonRelease(off)
                      ELSE IF falling THEN ButtonPress(off) ELSE off,
        !.axis = DxAxisReport(SwitchingRotaryScaled(val, s.threshold)),
        !.reports = 1]
\* A sample equal to the threshold is on neither side of it.
SwitchingRotaryUpdate_StrictSides(s, val) ==
  LET on == ButtonUpdate(NoCalls(s.buttonOn))
      off == ButtonUpdate(NoCalls(s.buttonOff))
      rising == val > s.threshold /\ s.last < s.threshold
      falling == ~rising /\ val < s.threshold /\ s.last > s.threshold
  IN [s EXCEPT
        !.buttonOn = IF rising THEN ButtonPress(on)
                     ELSE IF falling THEN ButtonRelease(on) ELSE on,
        !.buttonOff = IF rising THEN ButtonRelease(off)
                      ELSE IF falling THEN ButtonPress(off) ELSE off,
        !.axis = DxAxisReport(SwitchingRotaryScaled(val, s.threshold)),
        !.reports = 1,
        !.last = val]
SwitchingRotaryUpdate(s, val) ==
  LET on == ButtonUpdate(NoCalls(s.buttonOn))
      off == ButtonUpdate(NoCalls(s.buttonOff))
      rising == val >= s.threshold /\ s.last < s.threshold
      falling == ~rising /\ val <= s.threshold /\ s.last > s.threshold
  IN [s EXCEPT
        !.buttonOn = IF rising THEN ButtonPress(on)
                     ELSE IF falling THEN ButtonRelease(on) ELSE on,
        !.buttonOff = IF rising THEN ButtonRelease(off)
                      ELSE IF falling THEN ButtonPress(off) ELSE off,
        !.axis = DxAxisReport(SwitchingRotaryScaled(val, s.threshold)),
        !.reports = 1,
        !.last = val]

SrConstruct(on, off, threshold) ==
  /\ sr = NewSwitchingRotary(on, off, threshold)
  /\ srVal = -AnalogRes
  /\ srPrev = -AnalogRes

\* One tick of loop() for a panel that holds one SwitchingRotary.
SrTick ==
  \E val \in Samples :
    /\ sr' = SwitchingRotaryUpdate(sr, val)
    /\ srVal' = val
    /\ srPrev' = srVal

\* How far outside [0, 1] a sample or a threshold may lie, in 1/AnalogRes;
\* less than AnalogRes, so that no sample is the -1.0 that _last starts with.
WideMargin == 3

\* Samples of a source that does not keep to [0, 1], and thresholds that the
\* constructor takes although they are outside [0, 1].
WideSamples == -WideMargin .. AnalogRes + WideMargin
WideThresholds == -WideMargin .. AnalogRes + WideMargin

\* One tick of loop() for a panel that holds one SwitchingRotary on such a
\* source.
SrTickWide ==
  \E val \in WideSamples :
    /\ sr' = SwitchingRotaryUpdate(sr, val)
    /\ srVal' = val
    /\ srPrev' = srVal

\* ---------------------------------------------------------- RotaryEncoder
\* Largest queueLimit that is configured (the default is 2).
MaxQueueLimit == 2

\* The constructor takes any int; the README asks for at least one.
QueueLimits == 0 .. MaxQueueLimit

\* The canonical four-phase sequences on (in1, in2), and a half step that
\* is taken back.
ForwardCycle ==
  << <<FALSE, FALSE>>, <<TRUE, FALSE>>, <<TRUE, TRUE>>, <<FALSE, TRUE>>,
     <<FALSE, FALSE>> >>
ReverseCycle ==
  << <<FALSE, FALSE>>, <<FALSE, TRUE>>, <<TRUE, TRUE>>, <<TRUE, FALSE>>,
     <<FALSE, FALSE>> >>
RetracedCycle ==
  << <<FALSE, FALSE>>, <<TRUE, FALSE>>, <<TRUE, TRUE>>, <<TRUE, FALSE>>,
     <<FALSE, FALSE>> >>

\* Ticks the history below keeps: the start of a cycle and its four steps.
CycleLen == Len(ForwardCycle)

VARIABLES
  re,      \* the RotaryEncoder: its fields, and as instrumentation
           \*   val1, val2: the samples of the last tick,
           \*   matched: the step the last tick detected,
           \*   enqueued: whether the last tick incremented a pending count
  reHist   \* history: re after each of the last CycleLen ticks, oldest first
           \*   (the constructed encoder counts as the first of them)

reVars == <<re, reHist>>

NewRotaryEncoder(buttonForward, buttonBackward, queueLimit) ==
  [buttonForward |-> buttonForward, buttonBackward |-> buttonBackward,
   pendingForward |-> 0, pendingBackward |-> 0, pressed |-> FALSE,
   last1 |-> FALSE, last2 |-> FALSE,
   lastEvent |-> 0, penultimateEvent |-> 0, queueLimit |-> queueLimit,
   val1 |-> FALSE, val2 |-> FALSE, matched |-> "none", enqueued |-> FALSE]

\* Recording the transition of one phase: <<penultimateEvent, lastEvent>>.
EncoderRecord(slots, val, last, tag) ==
  IF val /\ ~last THEN <<slots[2], tag>>
  ELSE IF ~val /\ last THEN <<slots[2], -tag>>
  ELSE slots

\* Phase 2 is recorded before phase 1.
EncoderEvents_Phase2First(r, val1, val2) ==
  EncoderRecord(
    EncoderRecord(<<r.penultimateEvent, r.lastEvent>>, val2, r.last2, 2),
    val1, r.last1, 1)
\* The event slots after both phases of a tick are recorded, phase 1 first.
EncoderEvents(r, val1, val2) ==
  EncoderRecord(
    EncoderRecord(<<r.penultimateEvent, r.lastEvent>>, val1, r.last1, 1),
    val2, r.last2, 2)

\* The two directions are swapped.
EncoderMatch_Swapped(slots) ==
  IF slots[2] = -2 /\ slots[1] = -1 THEN "backward"
  ELSE IF slots[2] = -1 /\ slots[1] = -2 THEN "forward"
  ELSE "none"
\* Only the last event is looked at.
EncoderMatch_LastEventOnly(slots) ==
  IF slots[2] = -2 THEN "forward"
  ELSE IF slots[2] = -1 THEN "backward"
  ELSE "none"
\* The step that the two recorded events make up.
EncoderMatch(slots) ==
  IF slots[2] = -2 /\ slots[1] = -1 THEN "forward"
  ELSE IF slots[2] = -1 /\ slots[1] = -2 THEN "backward"
  ELSE "none"

\* The queue limit is not tested.
EncoderEnqueue_NoLimit(r, m) ==
  IF m = "forward"
    THEN [r EXCEPT !.pendingForward = @ + 1, !.enqueued = TRUE]
  ELSE IF m = "backward"
    THEN [r EXCEPT !.pendingBackward = @ + 1, !.enqueued = TRUE]
  ELSE r
\* A detected step is counted unless the queue of its direction is full.
EncoderEnqueue(r, m) ==
  IF m = "forward" /\ r.pendingForward < r.queueLimit
    THEN [r EXCEPT !.pendingForward = @ + 1, !.enqueued = TRUE]
  ELSE IF m = "backward" /\ r.pendingBackward < r.queueLimit
    THEN [r EXCEPT !.pendingBackward = @ + 1, !.enqueued = TRUE]
  ELSE r

\* A pulse is counted as delivered when its button is pressed.
EncoderDrain_CountsOnPress(r) ==
  IF r.pendingForward > 0
    THEN IF r.pressed
           THEN [r EXCEPT !.buttonForward = ButtonRelease(@),
                          !.pressed = FALSE]
           ELSE [r EXCEPT !.buttonForward = ButtonPress(@),
                          !.pressed = TRUE, !.pendingForward = @ - 1]
  ELSE IF r.pendingBackward > 0
    THEN IF r.pressed
           THEN [r EXCEPT !.buttonBackward = ButtonRelease(@),
                          !.pressed = FALSE]
           ELSE [r EXCEPT !.buttonBackward = ButtonPress(@),
                          !.pressed = TRUE, !.pendingBackward = @ - 1]
  ELSE [r EXCEPT !.pressed = FALSE]
\* A released pulse is not taken off its queue.
EncoderDrain_NeverCounts(r) ==
  IF r.pendingForward > 0
    THEN IF r.pressed
           THEN [r EXCEPT !.buttonForward = ButtonRelease(@),
                          !.pressed = FALSE]
           ELSE [r EXCEPT !.buttonForward = ButtonPress(@),
                          !.pressed = TRUE]
  ELSE IF r.pendingBackward > 0
    THEN IF r.pressed
           THEN [r EXCEPT !.buttonBackward = ButtonRelease(@),
                          !.pressed = FALSE]
           ELSE [r EXCEPT !.buttonBackward = ButtonPress(@),
                          !.pressed = TRUE]
  ELSE [r EXCEPT !.pressed = FALSE]
\* The tail of update(): one press or one release per tick.
EncoderDrain(r) ==
  IF r.pendingForward > 0
    THEN IF r.pressed
           THEN [r EXCEPT !.buttonForward = ButtonRelease(@),
                          !.pressed = FALSE, !.pendingForward = @ - 1]
           ELSE [r EXCEPT !.buttonForward = ButtonPress(@),
                          !.pressed = TRUE]
  ELSE IF r.pendingBackward > 0
    THEN IF r.pressed
           THEN [r EXCEPT !.buttonBackward = ButtonRelease(@),
                          !.pressed = FALSE, !.pendingBackward = @ - 1]
           ELSE [r EXCEPT !.buttonBackward = ButtonPress(@),
                          !.pressed = TRUE]
  ELSE [r EXCEPT !.pressed = FALSE]

\* A matched pair stays in the slots.
EncoderClear_KeepsSlots(slots, m) == slots
\* Both branches of the match empty the two event slots, whether or not the
\* pulse was counted.
EncoderClear(slots, m) == IF m = "none" THEN slots ELSE <<0, 0>>

RotaryEncoderUpdate(r, val1, val2) ==
  LET slots == EncoderEvents(r, val1, val2)
      m == EncoderMatch(slots)
      cleared == EncoderClear(slots, m)
      start == [r EXCEPT !.buttonForward = NoCalls(@),
                         !.buttonBackward = NoCalls(@),
                         !.val1 = val1, !.val2 = val2,
                         !.matched = m, !.enqueued = FALSE,
                         !.penultimateEvent = cleared[1],
                         !.lastEvent = cleared[2],
                         !.last1 = val1, !.last2 = val2]
  IN EncoderDrain(EncoderEnqueue(start, m))

ReConstruct(bf, bb, q) ==
  /\ re = NewRotaryEncoder(bf, bb, q)
  /\ reHist = <<NewRotaryEncoder(bf, bb, q)>>

\* The last n elements of s
LastN(s, n) == IF Len(s) <= n THEN s ELSE SubSeq(s, Len(s) - n + 1, Len(s))

\* One tick of loop() for a panel that holds one RotaryEncoder.
ReTick ==
  \E val1 \in BOOLEAN, val2 \in BOOLEAN :
    /\ re' = RotaryEncoderUpdate(re, val1, val2)
    /\ reHist' = LastN(Append(reHist, re'), CycleLen)

\* ------------------------------------------------------------ PulseRotary
\* Positions of a PulseRotary with `divisions` divisions are multiples of
\* 1/(2 * divisions * StepUnits): _stepSize is 2 * StepUnits of them, half a
\* turn divisions * StepUnits and the full range twice that.  The arithmetic
\* is exact; float rounding is not modelled.
StepUnits == 1

\* Largest `divisions` that is configured.
MaxDivisions == 4

\* Pulses counted in _pendingUp / _pendingDown, which the code does not limit.
MaxPending == 3

Divisions == 1 .. MaxDivisions
PrStep == 2 * StepUnits
PrHalf(d) == d * StepUnits
PrFull(d) == 2 * d * StepUnits
PrSamples(d) == 0 .. PrFull(d)

\* The channels the rotaries are checked with.
RotaryChannels == {NewDxButton, NewMomentaryButton(1, 1)}

VARIABLES
  pr,     \* the PulseRotary: its fields, and as instrumentation
          \*   val: the sample of the last tick,
          \*   crossed: the window the sample fell in, "none" | "up" | "down"
  prPrev  \* history: pr as the tick before the last one left it

prVars == <<pr, prPrev>>

between(val, low, high) == (val >= low) /\ (val <= high)

\* The position half a turn from _last
PulseOpposite(last, d) ==
  IF last + PrHalf(d) >= PrFull(d) THEN last - PrHalf(d) ELSE last + PrHalf(d)

\* The eight window limits for home position `last`; -1.0 is -PrFull(d).
updateThresholds(last, d) ==
  LET opposite == PulseOpposite(last, d)
      step == PrStep
      one == PrFull(d)
      half == PrHalf(d)
      none == -one
      win(ul1, uh1, ul2, uh2, dl1, dh1, dl2, dh2) ==
        [nextUpLow1 |-> ul1, nextUpHigh1 |-> uh1,
         nextUpLow2 |-> ul2, nextUpHigh2 |-> uh2,
         nextDownLow1 |-> dl1, nextDownHigh1 |-> dh1,
         nextDownLow2 |-> dl2, nextDownHigh2 |-> dh2]
  IN IF between(last, 0, step)
       THEN win(last + step, opposite, none, none,
                opposite, last - step + one, none, none)
     ELSE IF between(last, one - step, one)
       THEN win(last + step - one, opposite, none, none,
                opposite, last - step, none, none)
     ELSE IF between(last, half - step, half)
       THEN win(last + step, opposite, none, none,
                0, last - step, opposite, one)
     ELSE IF between(last, half, half + step)
       THEN win(last + step, one, 0, opposite,
                opposite, last - step, none, none)
     ELSE IF between(last, step, half)
       THEN win(last + step, opposite, none, none,
                0, last - step, opposite, one)
     ELSE win(last + step, one, 0, opposite,
              opposite, last - step, none, none)

NewPulseRotary(buttonUp, buttonDown, divisions) ==
  [buttonUp |-> buttonUp, buttonDown |-> buttonDown,
   divisions |-> divisions, last |-> 0,
   th |-> updateThresholds(0, divisions),
   pendingUp |-> 0, pendingDown |-> 0, pressed |-> FALSE,
   val |-> 0, crossed |-> "none"]

\* The window the reading falls in; the down windows are tested first.
PulseWindow(th, val) ==
  IF \/ between(val, th.nextDownLow1, th.nextDownHigh1)
     \/ between(val, th.nextDownLow2, th.nextDownHigh2)
    THEN "down"
  ELSE IF \/ between(val, th.nextUpLow1, th.nextUpHigh1)
          \/ between(val, th.nextUpLow2, th.nextUpHigh2)
    THEN "up"
  ELSE "none"

\* A crossing leaves the queue and the button of the other direction alone.
PulseCross_KeepsOther(r, val) ==
  LET w == PulseWindow(r.th, val)
  IN IF w = "down"
       THEN [r EXCEPT !.pendingDown = @ + 1,
                      !.last = val,
                      !.th = updateThresholds(val, r.divisions),
                      !.val = val, !.crossed = w]
     ELSE IF w = "up"
       THEN [r EXCEPT !.pendingUp = @ + 1,
                      !.last = val,
                      !.th = updateThresholds(val, r.divisions),
                      !.val = val, !.crossed = w]
     ELSE [r EXCEPT !.val = val, !.crossed = w]
\* The first half of update(): a reading in a window becomes the new home.
PulseCross(r, val) ==
  LET w == PulseWindow(r.th, val)
  IN IF w = "down"
       THEN [r EXCEPT !.pendingUp = 0, !.pendingDown = @ + 1,
                      !.buttonUp = ButtonRelease(@),
                      !.last = val,
                      !.th = updateThresholds(val, r.divisions),
                      !.val = val, !.crossed = w]
     ELSE IF w = "up"
       THEN [r EXCEPT !.pendingUp = @ + 1, !.pendingDown = 0,
                      !.buttonDown = ButtonRelease(@),
                      !.last = val,
                      !.th = updateThresholds(val, r.divisions),
                      !.val = val, !.crossed = w]
     ELSE [r EXCEPT !.val = val, !.crossed = w]

\* The pressed flag is not consulted: a pending pulse presses on every tick.
PulseDrain_PressesEveryTick(r) ==
  IF r.pendingUp > 0
    THEN [r EXCEPT !.buttonUp = ButtonPress(@), !.pressed = TRUE,
                   !.pendingUp = @ - 1]
  ELSE IF r.pendingDown > 0
    THEN [r EXCEPT !.buttonDown = ButtonPress(@), !.pressed = TRUE,
                   !.pendingDown = @ - 1]
  ELSE [r EXCEPT !.pressed = FALSE]
\* The second half of update(): one press or one release per tick.
PulseDrain(r) ==
  IF r.pendingUp > 0
    THEN IF r.pressed
           THEN [r EXCEPT !.buttonUp = ButtonRelease(@),
                          !.pressed = FALSE, !.pendingUp = @ - 1]
           ELSE [r EXCEPT !.buttonUp = ButtonPress(@), !.pressed = TRUE]
  ELSE IF r.pendingDown > 0
    THEN IF r.pressed
           THEN [r EXCEPT !.buttonDown = ButtonRelease(@),
                          !.pressed = FALSE, !.pendingDown = @ - 1]
           ELSE [r EXCEPT !.buttonDown = ButtonPress(@), !.pressed = TRUE]
  ELSE [r EXCEPT !.pressed = FALSE]

PulseRotaryUpdate(r, val) ==
  LET start == [r EXCEPT !.buttonUp = ButtonUpdate(NoCalls(@)),
                         !.buttonDown = ButtonUpdate(NoCalls(@))]
  IN PulseDrain(PulseCross(start, val))

PrConstruct(bu, bd, d) ==
  /\ pr = NewPulseRotary(bu, bd, d)
  /\ prPrev = NewPulseRotary(bu, bd, d)

\* One tick of loop() for a panel that holds one PulseRotary.
PrTick ==
  \E val \in PrSamples(pr.divisions) :
    /\ pr' = PulseRotaryUpdate(pr, val)
    /\ pr'.pendingUp <= MaxPending /\ pr'.pendingDown <= MaxPending
    /\ prPrev' = pr

\* -------------------------------------------------------------- IC74LS151
\* The chip has eight data lines.  input(byte addr) takes any byte.
MuxLines == 0 .. 7

\* Largest address that input() is called with.
MaxAddr == 8

MuxAddrs == 0 .. MaxAddr

\* Arduino's bitRead(value, bit)
bitRead(value, bit) == (value \div (2 ^ bit)) % 2

VARIABLES
  mx,      \* the multiplexer and its pins: the address lines dout0..dout2 as
           \* last written, the eight data lines, and as instrumentation
           \*   addr: the address of the virtual source read last (-1: none),
           \*   result: what that read returned
  mxBefore \* history: the address lines as they were before the last read

mxVars == <<mx, mxBefore>>

\* The data line the chip routes to its output: dout0 is the low bit.
MuxSelected(m) ==
  (IF m.dout0 THEN 1 ELSE 0) + (IF m.dout1 THEN 2 ELSE 0)
    + (IF m.dout2 THEN 4 ELSE 0)

\* _din->read()
MuxDin(m) == m.data[MuxSelected(m)]

\* The shared input is sampled before the address lines are written.
IC74LS151Read_SampleFirst(m, addr0, addr1, addr2) ==
  [m EXCEPT !.result = MuxDin(m),
            !.dout0 = addr0, !.dout1 = addr1, !.dout2 = addr2]
\* IC74LS151::read
IC74LS151Read(m, addr0, addr1, addr2) ==
  LET written == [m EXCEPT !.dout0 = addr0, !.dout1 = addr1,
                           !.dout2 = addr2]
  IN [written EXCEPT !.result = MuxDin(written)]

\* read() of the virtual source that input(addr) made
InputLineRead(m, addr) ==
  [IC74LS151Read(m, bitRead(addr, 0) = 1, bitRead(addr, 1) = 1,
                 bitRead(addr, 2) = 1)
     EXCEPT !.addr = addr]

NewIC74LS151(lines, data) ==
  [dout0 |-> lines[1], dout1 |-> lines[2], dout2 |-> lines[3],
   data |-> data, addr |-> -1, result |-> FALSE]

MxConstruct(lines, data) ==
  /\ mx = NewIC74LS151(lines, data)
  /\ mxBefore = lines

\* A consumer reads one of the virtual sources.
MxRead ==
  \E addr \in MuxAddrs :
    /\ mx' = InputLineRead(mx, addr)
    /\ mxBefore' = <<mx.dout0, mx.dout1, mx.dout2>>

\* ----------------------------------------------------------- OnOffOnSwitch
VARIABLES
  oo,    \* the OnOffOnSwitch: [buttonUp, buttonMiddle, buttonDown, last]
  ooIn,  \* history: the samples <<inUp, inDown>> of the last tick, 0 or 1
         \* each (-1 before the first tick)
  ooPrevIn  \* history: the samples of the tick before that

ooVars == <<oo, ooIn, ooPrevIn>>

NewOnOffOnSwitch(buttonUp, buttonMiddle, buttonDown) ==
  [buttonUp |-> buttonUp, buttonMiddle |-> buttonMiddle,
   buttonDown |-> buttonDown, last |-> NONE]

\* inDown is tested before inUp.
OnOffOnPosition_DownFirst(inUp, inDown) ==
  IF ~inDown THEN DOWN ELSE IF ~inUp THEN UP ELSE MIDDLE
\* The position that update() derives from the two samples
OnOffOnPosition(inUp, inDown) ==
  IF ~inUp THEN UP ELSE IF ~inDown THEN DOWN ELSE MIDDLE

\* The buttons are set on every tick.
OnOffOnSwitchUpdate_EveryTick(s, inUp, inDown) ==
  LET up == ButtonUpdate(NoCalls(s.buttonUp))
      middle == ButtonUpdate(NoCalls(s.buttonMiddle))
      down == ButtonUpdate(NoCalls(s.buttonDown))
      current == OnOffOnPosition(inUp, inDown)
  IN [buttonUp |-> setButton(up, current = UP),
      buttonMiddle |-> setButton(middle, current = MIDDLE),
      buttonDown |-> setButton(down, current = DOWN),
      last |-> current]
OnOffOnSwitchUpdate(s, inUp, inDown) ==
  LET up == ButtonUpdate(NoCalls(s.buttonUp))
      middle == ButtonUpdate(NoCalls(s.buttonMiddle))
      down == ButtonUpdate(NoCalls(s.buttonDown))
      current == OnOffOnPosition(inUp, inDown)
  IN IF current # s.last
       THEN [buttonUp |-> setButton(up, current = UP),
             buttonMiddle |-> setButton(middle, current = MIDDLE),
             buttonDown |-> setButton(down, current = DOWN),
             last |-> current]
       ELSE [s EXCEPT !.buttonUp = up, !.buttonMiddle = middle,
                      !.buttonDown = down]

OoConstruct(bu, bm, bd) ==
  /\ oo = NewOnOffOnSwitch(bu, bm, bd)
  /\ ooIn = <<-1, -1>>
  /\ ooPrevIn = <<-1, -1>>

\* One tick of loop() for a panel that holds one OnOffOnSwitch.
OoTick ==
  \E inUp \in BOOLEAN, inDown \in BOOLEAN :
    /\ oo' = OnOffOnSwitchUpdate(oo, inUp, inDown)
    /\ ooIn' = <<IF inUp THEN 1 ELSE 0, IF inDown THEN 1 ELSE 0>>
    /\ ooPrevIn' = ooIn

\* -------------------------------------------------------------- PushButton
VARIABLES
  pb,     \* the PushButton: [in, button]; in is the address of the
          \* multiplexer's virtual source that it reads
  pbIn,   \* history: the level on the button's data line on the last tick,
          \* 0 or 1 (-1 before it)
  pbHeld  \* history: the number of ticks in a row, up to the last one, on
          \* which that level was false

pbVars == <<pb, pbIn, pbHeld>>

NewPushButton(in, button) == [in |-> in, button |-> button]

\* The button is pressed while the sample is true.
PushButtonUpdate_ActiveHigh(b, in) ==
  LET button == ButtonUpdate(NoCalls(b.button))
  IN [b EXCEPT !.button =
        IF in THEN ButtonPress(button) ELSE ButtonRelease(button)]
PushButtonUpdate(b, in) ==
  LET button == ButtonUpdate(NoCalls(b.button))
  IN [b EXCEPT !.button =
        IF in THEN ButtonRelease(button) ELSE ButtonPress(button)]

PbConstruct(in, button) ==
  /\ pb = NewPushButton(in, button)
  /\ pbIn = -1
  /\ pbHeld = 0

\* One tick of loop() for a panel that holds the multiplexer and one
\* PushButton on one of its virtual sources; the physical button drives the
\* data line of that address.
PbTick ==
  \E level \in BOOLEAN :
    LET wired == [mx EXCEPT !.data[pb.in] = level]
        read == InputLineRead(wired, pb.in)
    IN /\ mx' = read
       /\ mxBefore' = <<mx.dout0, mx.dout1, mx.dout2>>
       /\ pb' = PushButtonUpdate(pb, read.result)
       /\ pbIn' = (IF level THEN 1 ELSE 0)
       /\ pbHeld' = IF level THEN 0 ELSE pbHeld + 1
       /\ pbHeld' <= MaxUpdates

\* ------------------------------------------------------- setup() and loop()
\* The component list of the panel that is scheduled: the multiplexer, a
\* PushButton on one of its virtual sources and an OnOffSwitch on a pin.
Panel == <<"IC74LS151", "PushButton", "OnOffSwitch">>
componentCount == Len(Panel)

\* The channels the scheduled panel is built with.
PanelChannels == {NewDxButton, NewMomentaryButton(MaxDuration, 0)}

VARIABLES
  sch   \* the sketch: pc is the statement that runs next, i the loop index
        \* (from 1), report what Gamepad.write() sent last, and as
        \* instrumentation
        \*   setupCalls: the number of setup() calls per component,
        \*   begun: Gamepad.begin() was called,
        \*   tickUpdates: the components updated by this call of loop(),
        \*   tickWrites: the Gamepad.write() calls of this call of loop(),
        \*   lastTick: tickUpdates and tickWrites of the call of loop() before

schVars == <<sch>>

\* The buttons as the Gamepad holds them
PanelButtons ==
  [push |-> pb.button.pressed,
   up |-> sw.buttonUp.pressed, down |-> sw.buttonDown.pressed]

NewSketch ==
  [pc |-> "setup", i |-> 1,
   report |-> [push |-> FALSE, up |-> FALSE, down |-> FALSE],
   setupCalls |-> [c \in 1 .. componentCount |-> 0], begun |-> FALSE,
   tickUpdates |-> <<>>, tickWrites |-> 0,
   lastTick |-> [updates |-> <<>>, writes |-> 0]]

\* One pass of the for loop in setup()
SketchSetup(s) ==
  [s EXCEPT !.setupCalls[s.i] = @ + 1,
            !.i = IF s.i = componentCount THEN 1 ELSE s.i + 1,
            !.pc = IF s.i = componentCount THEN "begin" ELSE "setup"]

\* Gamepad.begin(), the end of setup()
SketchBegin(s) == [s EXCEPT !.begun = TRUE, !.pc = "update", !.i = 1]

\* The report is written after every update.
SketchUpdate_WritesInLoop(s) ==
  LET entered == IF s.i = 1
                   THEN [s EXCEPT !.lastTick = [updates |-> s.tickUpdates,
                                                writes |-> s.tickWrites],
                                  !.tickUpdates = <<>>, !.tickWrites = 0]
                   ELSE s
  IN [entered EXCEPT !.tickUpdates = Append(@, s.i),
                     !.tickWrites = @ + 1,
                     !.i = IF s.i = componentCount THEN 1 ELSE s.i + 1]
\* One pass of the for loop in loop(); the first pass of a call of loop()
\* starts the tick's instrumentation afresh.
SketchUpdate(s) ==
  LET entered == IF s.i = 1
                   THEN [s EXCEPT !.lastTick = [updates |-> s.tickUpdates,
                                                writes |-> s.tickWrites],
                                  !.tickUpdates = <<>>, !.tickWrites = 0]
                   ELSE s
  IN [entered EXCEPT !.tickUpdates = Append(@, s.i),
                     !.i = IF s.i = componentCount THEN 1 ELSE s.i + 1,
                     !.pc = IF s.i = componentCount THEN "write"
                            ELSE "update"]

\* Gamepad.write() and delay(150), the end of loop()
SketchWrite(s, buttons) ==
  [s EXCEPT !.report = buttons, !.tickWrites = @ + 1, !.pc = "update"]

SchConstruct == sch = NewSketch

\* components[i]->setup(): no component's setup() changes what is modelled.
SchSetup ==
  /\ sch.pc = "setup"
  /\ sch' = SketchSetup(sch)
  /\ UNCHANGED <<mxVars, pbVars, swVars>>

SchBegin ==
  /\ sch.pc = "begin"
  /\ sch' = SketchBegin(sch)
  /\ UNCHANGED <<mxVars, pbVars, swVars>>

\* components[i]->update(); IC74LS151::update() is empty.
SchUpdate ==
  /\ sch.pc = "update"
  /\ sch' = SketchUpdate(sch)
  /\ \/ Panel[sch.i] = "IC74LS151" /\ UNCHANGED <<mxVars, pbVars, swVars>>
     \/ Panel[sch.i] = "PushButton" /\ PbTick /\ UNCHANGED swVars
     \/ Panel[sch.i] = "OnOffSwitch" /\ SwTick /\ UNCHANGED <<mxVars, pbVars>>

SchWrite ==
  /\ sch.pc = "write"
  /\ sch' = SketchWrite(sch, PanelButtons)
  /\ UNCHANGED <<mxVars, pbVars, swVars>>

\* ------------------------------------------------- two orders of one panel
\* A panel of the multiplexer, a PushButton and an OnOffSwitch on two of its
\* virtual sources and a SwitchingRotary on an analog pin, built twice: once
\* in the order below and once with the three components behind the
\* multiplexer in any order.
OrderBase == <<"IC74LS151", "PushButton", "OnOffSwitch", "SwitchingRotary">>

OrderLists ==
  {p \in [1 .. Len(OrderBase) -> {OrderBase[i] : i \in 1 .. Len(OrderBase)}] :
     /\ p[1] = OrderBase[1]
     /\ \A i, j \in 1 .. Len(OrderBase) : p[i] = p[j] => i = j}

\* The multiplexer addresses that the two digital components are wired to.
OrderLines == {1, 6}

\* The levels the address lines start at: all low or all high.
OrderPins == {<<FALSE, FALSE, FALSE>>, <<TRUE, TRUE, TRUE>>}

\* The threshold of the panel's SwitchingRotary, and the samples it is given.
OrderThreshold == AnalogRes \div 2
OrderSamples == {0, OrderThreshold, AnalogRes}

VARIABLES
  od   \* the two panels: lists is the two component lists, runs the two
       \* panels' objects [mx, pb, swIn, sw, sr, report], where swIn is the
       \* address the OnOffSwitch reads and report what Gamepad.write() sent
       \* last; as instrumentation, data is the levels on the data lines and
       \* val the analog sample of the last tick

odVars == <<od>>

\* What Gamepad.write() sends for one panel
OrderReport(run) ==
  [push |-> run.pb.button.pressed,
   up |-> run.sw.buttonUp.pressed, down |-> run.sw.buttonDown.pressed,
   on |-> run.sr.buttonOn.pressed, off |-> run.sr.buttonOff.pressed,
   axis |-> run.sr.axis]

NewOrderRun(lines, a, b, c) ==
  LET run == [mx |-> NewIC74LS151(lines, [line \in MuxLines |-> FALSE]),
              pb |-> NewPushButton(a, c),
              swIn |-> b, sw |-> NewOnOffSwitch(c, c),
              sr |-> NewSwitchingRotary(c, c, OrderThreshold)]
  IN [mx |-> run.mx, pb |-> run.pb, swIn |-> run.swIn, sw |-> run.sw,
      sr |-> run.sr, report |-> OrderReport(run)]

\* components[i]->update() for the component called name
OrderUpdate(run, name, val) ==
  IF name = "PushButton"
    THEN LET read == InputLineRead(run.mx, run.pb.in)
         IN [run EXCEPT !.mx = read,
                        !.pb = PushButtonUpdate(run.pb, read.result)]
  ELSE IF name = "OnOffSwitch"
    THEN LET read == InputLineRead(run.mx, run.swIn)
         IN [run EXCEPT !.mx = read,
                        !.sw = OnOffSwitchUpdate(run.sw, read.result)]
  ELSE IF name = "SwitchingRotary"
    THEN [run EXCEPT !.sr = SwitchingRotaryUpdate(run.sr, val)]
  ELSE run

RECURSIVE OrderFor(_, _, _, _)
\* The for loop of loop(), from index i on
OrderFor(run, list, i, val) ==
  IF i > Len(list) THEN run
  ELSE OrderFor(OrderUpdate(run, list[i], val), list, i + 1, val)

\* One call of loop() on a panel whose pins carry data and val
OrderLoop(run, list, data, val) ==
  LET updated == OrderFor([run EXCEPT !.mx.data = data], list, 1, val)
  IN [updated EXCEPT !.report = OrderReport(updated)]

OdConstruct(list, lines, a, b, c) ==
  od = [lists |-> <<OrderBase, list>>,
        runs |-> <<NewOrderRun(lines, a, b, c), NewOrderRun(lines, a, b, c)>>,
        data |-> [line \in MuxLines |-> FALSE], val |-> -AnalogRes]

\* One tick: both panels run loop() once on the same pin levels.
OdTick ==
  \E levels \in [OrderLines -> BOOLEAN], val \in OrderSamples :
    LET data == [line \in MuxLines |->
                   IF line \in OrderLines THEN levels[line] ELSE FALSE]
    IN od' = [od EXCEPT
                !.runs = <<OrderLoop(od.runs[1], od.lists[1], data, val),
                           OrderLoop(od.runs[2], od.lists[2], data, val)>>,
                !.data = data, !.val = val]

\* ------------------------------------------------------------ axis encoding
\* Converting a float that the target type cannot hold is undefined: the
\* build either keeps the low bits or stops at the nearest end of the range.
Conversions == {"wrap", "saturate"}

\* short(x) for a whole number x >= 0
FloatToShort(x, conversion) ==
  IF x <= 32767 THEN x
  ELSE IF conversion = "wrap" THEN ((x + 32768) % 65536) - 32768
  ELSE 32767

\* byte(x) for a whole number x >= 0
FloatToByte(x, conversion) ==
  IF x <= 255 THEN x
  ELSE IF conversion = "wrap" THEN x % 256
  ELSE 255

\* An integer returned as short, and as byte
IntToShort(x) == ((x + 32768) % 65536) - 32768
IntToByte(x) == x % 256

\* The byte as the signed 8-bit value of the report
ByteAsInt8(b) == IF b >= 128 THEN b - 256 ELSE b

\* trunc(val * factor) for a quotient val >= 0
ScaleTrunc(val, factor) == (val[1] * factor) \div val[2]

scale16(val, conversion) ==
  IntToShort(FloatToShort(ScaleTrunc(val, 65536), conversion) - 32768)

scale8(val, conversion) ==
  IntToByte(FloatToByte(ScaleTrunc(val, 256), conversion) - 128)

VARIABLES
  ax   \* the axis: what the last report() sent through a 16-bit adapter
       \* (out16) and through an 8-bit one (out8, as the report's signed
       \* byte), and as instrumentation
       \*   conversion: how this build converts out-of-range floats,
       \*   val: the clamped value of the last report() (<<-1, 1>>: none),
       \*   before: val, out16 and out8 of the report() before the last one

axVars == <<ax>>

NewDxAxis(conversion) ==
  [conversion |-> conversion, val |-> <<-1, 1>>, out16 |-> 0, out8 |-> 0,
   before |-> [val |-> <<-1, 1>>, out16 |-> 0, out8 |-> 0]]

\* DxAxis::report through both kinds of adapter
DxAxisSend(a, val) ==
  LET clamped == DxAxisReport(val)
  IN [a EXCEPT !.val = clamped,
               !.out16 = scale16(clamped, a.conversion),
               !.out8 = ByteAsInt8(scale8(clamped, a.conversion)),
               !.before = [val |-> a.val, out16 |-> a.out16,
                           out8 |-> a.out8]]

AxConstruct(conversion) == ax = NewDxAxis(conversion)

\* A component reports a value, which may lie outside [0, 1].
AxReport ==
  \E val \in WideSamples : ax' = DxAxisSend(ax, <<val, AnalogRes>>)

\* ---------------------------------------------------------- specifications
vars == <<mbVars, swVars, srVars, reVars, prVars, mxVars, ooVars, pbVars,
         schVars, odVars, axVars>>

MbIdle == MBConstruct(MaxDuration, 0)
SwIdle == SwConstruct(NewDxButton, NewDxButton)
SrIdle == SrConstruct(NewDxButton, NewDxButton, 0)
ReIdle == ReConstruct(NewDxButton, NewDxButton, MaxQueueLimit)
PrIdle == PrConstruct(NewDxButton, NewDxButton, MaxDivisions)
MxIdle ==
  MxConstruct(<<FALSE, FALSE, FALSE>>, [line \in MuxLines |-> FALSE])
OoIdle == OoConstruct(NewDxButton, NewDxButton, NewDxButton)
PbIdle == PbConstruct(0, NewDxButton)
SchIdle == SchConstruct
AxIdle == AxConstruct("wrap")
OdIdle ==
  OdConstruct(OrderBase, <<FALSE, FALSE, FALSE>>, 1, 6, NewDxButton)

\* A MomentaryButton that a caller presses, releases and updates at will.
InitMomentary ==
  /\ \E d \in Durations, g \in UninitCountdown : MBConstruct(d, g)
  /\ SwIdle /\ SrIdle /\ ReIdle /\ PrIdle
  /\ MxIdle /\ OoIdle /\ PbIdle /\ SchIdle /\ OdIdle /\ AxIdle

NextMomentary ==
  /\ MBPress \/ MBRelease \/ MBUpdate
  /\ UNCHANGED <<swVars, srVars, reVars, prVars, mxVars, ooVars, pbVars,
                 schVars,
                 odVars, axVars>>

SpecMomentary == InitMomentary /\ [][NextMomentary]_vars

\* An OnOffSwitch on two channels, polled once per tick.
InitOnOff ==
  /\ \E bu \in Channels, bd \in Channels : SwConstruct(bu, bd)
  /\ MbIdle /\ SrIdle /\ ReIdle /\ PrIdle
  /\ MxIdle /\ OoIdle /\ PbIdle /\ SchIdle /\ OdIdle /\ AxIdle

NextOnOff ==
  /\ SwTick
  /\ UNCHANGED <<mbVars, srVars, reVars, prVars, mxVars, ooVars, pbVars,
                 schVars,
                 odVars, axVars>>

SpecOnOff == InitOnOff /\ [][NextOnOff]_vars

\* A SwitchingRotary on two channels of one kind, polled once per tick.
InitSwitching ==
  /\ \E c \in Channels, t \in Thresholds : SrConstruct(c, c, t)
  /\ MbIdle /\ SwIdle /\ ReIdle /\ PrIdle
  /\ MxIdle /\ OoIdle /\ PbIdle /\ SchIdle /\ OdIdle /\ AxIdle

NextSwitching ==
  /\ SrTick
  /\ UNCHANGED <<mbVars, swVars, reVars, prVars, mxVars, ooVars, pbVars,
                 schVars,
                 odVars, axVars>>

SpecSwitching == InitSwitching /\ [][NextSwitching]_vars

\* A RotaryEncoder on two DxButtons, polled once per tick.
InitEncoder ==
  /\ \E q \in QueueLimits : ReConstruct(NewDxButton, NewDxButton, q)
  /\ MbIdle /\ SwIdle /\ SrIdle /\ PrIdle
  /\ MxIdle /\ OoIdle /\ PbIdle /\ SchIdle /\ OdIdle /\ AxIdle

NextEncoder ==
  /\ ReTick
  /\ UNCHANGED <<mbVars, swVars, srVars, prVars, mxVars, ooVars, pbVars,
                 schVars,
                 odVars, axVars>>

SpecEncoder == InitEncoder /\ [][NextEncoder]_vars

\* loop() never stops: the next tick always comes.
SpecEncoderLive == SpecEncoder /\ WF_vars(NextEncoder)

\* A PulseRotary on two channels of one kind, polled once per tick.
InitPulse ==
  /\ \E c \in RotaryChannels, d \in Divisions : PrConstruct(c, c, d)
  /\ MbIdle /\ SwIdle /\ SrIdle /\ ReIdle
  /\ MxIdle /\ OoIdle /\ PbIdle /\ SchIdle /\ OdIdle /\ AxIdle

NextPulse ==
  /\ PrTick
  /\ UNCHANGED <<mbVars, swVars, srVars, reVars, mxVars, ooVars, pbVars,
                 schVars,
                 odVars, axVars>>

SpecPulse == InitPulse /\ [][NextPulse]_vars

\* A panel with one rotary of either kind, polled once per tick; the rotary
\* of the other kind stays as constructed and is not in the component list.
InitPacing == InitEncoder \/ InitPulse

NextPacing ==
  \/ PrIdle /\ NextEncoder
  \/ ReIdle /\ NextPulse

SpecPacing == InitPacing /\ [][NextPacing]_vars

\* An IC74LS151 whose pins start at any level and whose virtual sources are
\* read in any order.
InitMux ==
  /\ \E lines \in BOOLEAN \X BOOLEAN \X BOOLEAN,
        data \in [MuxLines -> BOOLEAN] : MxConstruct(lines, data)
  /\ MbIdle /\ SwIdle /\ SrIdle /\ ReIdle
  /\ PrIdle /\ OoIdle /\ PbIdle /\ SchIdle /\ OdIdle /\ AxIdle

NextMux ==
  /\ MxRead
  /\ UNCHANGED <<mbVars, swVars, srVars, reVars, prVars, ooVars, pbVars,
                 schVars,
                 odVars, axVars>>

SpecMux == InitMux /\ [][NextMux]_vars

\* An OnOffOnSwitch on three channels of one kind, polled once per tick.
InitOnOffOn ==
  /\ \E c \in Channels : OoConstruct(c, c, c)
  /\ MbIdle /\ SwIdle /\ SrIdle /\ ReIdle
  /\ PrIdle /\ MxIdle /\ PbIdle /\ SchIdle /\ OdIdle /\ AxIdle

NextOnOffOn ==
  /\ OoTick
  /\ UNCHANGED <<mbVars, swVars, srVars, reVars, prVars, mxVars, pbVars,
                 schVars,
                 odVars, axVars>>

SpecOnOffOn == InitOnOffOn /\ [][NextOnOffOn]_vars

\* A PushButton on a channel of either kind that reads a virtual source of
\* the multiplexer, polled once per tick.
InitPush ==
  /\ \E c \in Channels, a \in MuxLines : PbConstruct(a, c)
  /\ \E lines \in BOOLEAN \X BOOLEAN \X BOOLEAN :
       MxConstruct(lines, [line \in MuxLines |-> FALSE])
  /\ MbIdle /\ SwIdle /\ SrIdle /\ ReIdle /\ PrIdle /\ OoIdle /\ SchIdle
  /\ OdIdle /\ AxIdle

NextPush ==
  /\ PbTick
  /\ UNCHANGED <<mbVars, swVars, srVars, reVars, prVars, ooVars, schVars,
                 odVars, axVars>>

SpecPush == InitPush /\ [][NextPush]_vars

\* The sketch: setup(), then loop() again and again, on the panel of the
\* multiplexer, a PushButton and an OnOffSwitch.
InitPanel ==
  /\ SchConstruct
  /\ \E c \in PanelChannels :
       /\ \E a \in MuxLines : PbConstruct(a, c)
       /\ SwConstruct(c, c)
  /\ \E lines \in BOOLEAN \X BOOLEAN \X BOOLEAN :
       MxConstruct(lines, [line \in MuxLines |-> FALSE])
  /\ MbIdle /\ SrIdle /\ ReIdle /\ PrIdle /\ OoIdle /\ OdIdle /\ AxIdle

NextPanel ==
  /\ SchSetup \/ SchBegin \/ SchUpdate \/ SchWrite
  /\ UNCHANGED <<mbVars, srVars, reVars, prVars, ooVars, odVars, axVars>>

SpecPanel == InitPanel /\ [][NextPanel]_vars

\* A SwitchingRotary on two DxButtons whose threshold and samples may lie
\* outside [0, 1], polled once per tick.
InitSwitchingWide ==
  /\ \E t \in WideThresholds : SrConstruct(NewDxButton, NewDxButton, t)
  /\ MbIdle /\ SwIdle /\ ReIdle /\ PrIdle
  /\ MxIdle /\ OoIdle /\ PbIdle /\ SchIdle /\ OdIdle /\ AxIdle

NextSwitchingWide ==
  /\ SrTickWide
  /\ UNCHANGED <<mbVars, swVars, reVars, prVars, mxVars, ooVars, pbVars,
                 schVars,
                 odVars, axVars>>

SpecSwitchingWide == InitSwitchingWide /\ [][NextSwitchingWide]_vars

\* Two panels of the same components in two list orders, given the same
\* pin levels on every tick.
InitOrder ==
  /\ \E list \in OrderLists, lines \in OrderPins,
        a \in OrderLines, b \in OrderLines, c \in PanelChannels :
       OdConstruct(list, lines, a, b, c)
  /\ MbIdle /\ SwIdle /\ SrIdle /\ ReIdle /\ PrIdle
  /\ MxIdle /\ OoIdle /\ PbIdle /\ SchIdle /\ AxIdle

NextOrder ==
  /\ OdTick
  /\ UNCHANGED <<mbVars, swVars, srVars, reVars, prVars, mxVars, ooVars,
                 pbVars, schVars, axVars>>

SpecOrder == InitOrder /\ [][NextOrder]_vars

\* A DxAxis that is sent any sequence of values, on a build of either kind.
InitAxis ==
  /\ \E conversion \in Conversions : AxConstruct(conversion)
  /\ MbIdle /\ SwIdle /\ SrIdle /\ ReIdle /\ PrIdle
  /\ MxIdle /\ OoIdle /\ PbIdle /\ SchIdle /\ OdIdle

NextAxis ==
  /\ AxReport
  /\ UNCHANGED <<mbVars, swVars, srVars, reVars, prVars, mxVars, ooVars,
                 pbVars, schVars, odVars>>

SpecAxis == InitAxis /\ [][NextAxis]_vars

\* ------------------------------------------------------------------ claims
\* C1: after press() and k update() calls with no press()/release() between
\* them, a button of duration N >= 1 has called inner.release() from update()
\* exactly once, on update N, when k >= N, and not at all when k < N.
C1_MomentaryTiming ==
  (mbPhase = "pressed" /\ mb.duration >= 1) =>
     /\ mbReleasedOn = IF mbUpdates >= mb.duration
                         THEN <<mb.duration>> ELSE <<>>
     /\ mb.pressed = (mbUpdates < mb.duration)

C1_Witness ==
  /\ mbPhase = "pressed"
  /\ mb.duration = MaxDuration
  /\ mbUpdates = MaxDuration + 1
  /\ mbReleasedOn = <<MaxDuration>>

\* C2: release() calls inner.release() once, and after a release() that
\* came before the countdown of the preceding press() expired no update()
\* calls inner.release(), however many follow.
C2_ExplicitReleaseWins ==
  /\ mbLast = "release" => (mb.sinkRelease = 1 /\ mb.sinkPress = 0)
  /\ mbPhase = "releasedEarly" =>
       (mbReleasedOn = <<>> /\ ~mb.pressed /\ mb.countdown = 0)

C2_Witness ==
  /\ mbPhase = "releasedEarly"
  /\ mbLast = "update"
  /\ mbUpdates >= mb.duration
  /\ mbUpdates = MaxUpdates

\* C3: on a tick whose sample equals the sample of the tick before, the
\* OnOffSwitch calls neither press() nor release() on a channel; on the first
\* tick of a run of equal samples (the first tick after construction
\* included) it makes one press() and one release() call.  Every tick calls
\* update() once on each channel.
C3_DebounceIdempotence ==
  swIn # -1 =>
    LET presses == sw.buttonUp.pressCalls + sw.buttonDown.pressCalls
        releases == sw.buttonUp.releaseCalls + sw.buttonDown.releaseCalls
    IN /\ IF swIn = swPrevIn
            THEN presses = 0 /\ releases = 0
            ELSE presses = 1 /\ releases = 1
       /\ sw.buttonUp.updateCalls = 1 /\ sw.buttonDown.updateCalls = 1

C3_Witness ==
  /\ swIn = swPrevIn /\ swIn # -1
  /\ swSince = MaxUpdates
  /\ sw.buttonUp.pressCalls + sw.buttonDown.pressCalls = 0
  /\ sw.buttonUp.momentary /\ sw.buttonDown.momentary

\* The channel of the position the switch is in, and the other one.
SwCurrent == IF sw.last = UP THEN sw.buttonUp ELSE sw.buttonDown
SwOther == IF sw.last = UP THEN sw.buttonDown ELSE sw.buttonUp

\* C4: with MomentaryButton channels of duration N >= 1, the button of the
\* new position is pressed in the state flushed on the tick of the change and
\* the N-1 ticks after it and is released from the N-th tick after it on,
\* while the switch stays still; the button of the position the switch left
\* is released on the tick of the change and no later tick releases it again.
C4_SwitchMomentaryTiming ==
  sw.last # NONE =>
    /\ (SwCurrent.momentary /\ SwCurrent.duration >= 1) =>
         SwCurrent.pressed = (swSince < SwCurrent.duration)
    /\ (SwOther.momentary /\ SwOther.duration >= 1) =>
         /\ ~SwOther.pressed
         /\ swSince = 0 => SwOther.releaseCalls = 1
         /\ swSince > 0 => SwOther.sinkRelease = 0

C4_Witness ==
  /\ sw.last = DOWN /\ swPrevIn = 1
  /\ sw.buttonDown.momentary /\ sw.buttonDown.duration = MaxDuration
  /\ sw.buttonUp.momentary /\ sw.buttonUp.duration = 1
  /\ swSince = MaxDuration
  /\ ~sw.buttonDown.pressed /\ sw.buttonDown.sinkRelease = 1

\* C5: on a tick whose sample is strictly above the threshold while the
\* sample before it was strictly below it, the SwitchingRotary calls
\* on.press() and off.release() once each and nothing else; strictly below
\* after strictly above, on.release() and off.press() once each and nothing
\* else; on the same strict side as before, no press() and no release().
\* On the first tick the -1.0 that _last starts with is the sample before.
C5_CrossingEvents ==
  srVal >= 0 =>
    LET on == sr.buttonOn
        off == sr.buttonOff
        calls == <<on.pressCalls, on.releaseCalls, off.pressCalls, off.releaseCalls>>
        t == sr.threshold
    IN /\ (srVal > t /\ srPrev < t) => calls = <<1, 0, 0, 1>>
       /\ (srVal < t /\ srPrev > t) => calls = <<0, 1, 1, 0>>
       /\ ((srVal > t /\ srPrev > t) \/ (srVal < t /\ srPrev < t)) =>
            calls = <<0, 0, 0, 0>>

C5_Witness ==
  /\ srVal >= 0 /\ srPrev >= 0
  /\ srVal < sr.threshold /\ srPrev > sr.threshold
  /\ sr.buttonOff.pressCalls = 1 /\ sr.buttonOn.releaseCalls = 1
  /\ sr.buttonOff.pressed /\ ~sr.buttonOn.pressed

\* C6: every tick hands exactly one value to the axis: the quotient
\* (val - threshold)/(1 - threshold) when val >= threshold (threshold < 1),
\* and 0 when val < threshold or val = threshold.
C6_AxisOutput ==
  srVal >= 0 =>
    /\ sr.reports = 1
    /\ (srVal >= sr.threshold /\ sr.threshold < AnalogRes) =>
         RatEq(sr.axis, <<srVal - sr.threshold, AnalogRes - sr.threshold>>)
    /\ srVal <= sr.threshold => RatEq(sr.axis, <<0, 1>>)

C6_Witness ==
  /\ sr.threshold = 2 /\ srVal = 3 /\ AnalogRes = 10
  /\ sr.reports = 1
  /\ RatEq(sr.axis, <<125, 1000>>)

\* The samples of the ticks in the history
RePhases == [i \in 1 .. Len(reHist) |-> <<reHist[i].val1, reHist[i].val2>>]
\* The history starts with both event slots empty
ReStartsEmpty == reHist[1].lastEvent = 0 /\ reHist[1].penultimateEvent = 0
\* The ticks of the history, its first one apart, that enqueued a pulse of
\* direction d
ReEnqueues(d) ==
  {i \in 2 .. Len(reHist) : reHist[i].enqueued /\ reHist[i].matched = d}

\* C7: from (0,0) with empty event slots and one phase change per tick, a
\* full forward cycle enqueues one forward pulse (on its last step) and no
\* backward pulse, and a full reverse cycle one backward pulse and no forward
\* pulse (queueLimit >= 1).
C7_CanonicalCycles ==
  (re.queueLimit >= 1 /\ ReStartsEmpty) =>
    /\ RePhases = ForwardCycle =>
         (ReEnqueues("forward") = {CycleLen} /\ ReEnqueues("backward") = {})
    /\ RePhases = ReverseCycle =>
         (ReEnqueues("backward") = {CycleLen} /\ ReEnqueues("forward") = {})

C7_Witness ==
  /\ re.queueLimit >= 1 /\ ReStartsEmpty
  /\ RePhases = ReverseCycle
  /\ re.enqueued /\ re.matched = "backward"
  /\ re.buttonBackward.pressed

\* C8: a sample sequence that completes no full four-phase cycle enqueues
\* nothing: neither a half step taken back, (0,0) (1,0) (1,1) (1,0) (0,0),
\* nor one phase toggling while the other one stays as it is.
C8_NoiseRejection ==
  ReStartsEmpty =>
    /\ RePhases = RetracedCycle =>
         (ReEnqueues("forward") = {} /\ ReEnqueues("backward") = {})
    /\ (\/ \A i \in 1 .. Len(reHist) : reHist[i].val1 = reHist[1].val1
        \/ \A i \in 1 .. Len(reHist) : reHist[i].val2 = reHist[1].val2) =>
         (ReEnqueues("forward") = {} /\ ReEnqueues("backward") = {})

\* The encoder as the tick before the last one left it
RePrev == reHist[Len(reHist) - 1]

\* C9: both pending counts stay within 0 .. queueLimit, and a step detected
\* while the count of its direction is at queueLimit is not counted.
C9_QueueBound ==
  /\ re.pendingForward \in 0 .. re.queueLimit
  /\ re.pendingBackward \in 0 .. re.queueLimit
  /\ Len(reHist) >= 2 =>
       /\ (re.matched = "forward" /\ RePrev.pendingForward = re.queueLimit) =>
            (~re.enqueued /\ re.pendingForward <= RePrev.pendingForward)
       /\ (re.matched = "backward" /\ RePrev.pendingBackward = re.queueLimit) =>
            (~re.enqueued /\ re.pendingBackward <= RePrev.pendingBackward)

C9_Witness ==
  /\ re.queueLimit >= 1
  /\ re.pendingForward = re.queueLimit
  /\ re.enqueued /\ re.matched = "forward"

NoButtonCalls(ch) == ch.pressCalls = 0 /\ ch.releaseCalls = 0
ReOwn(r, d) == IF d = "forward" THEN r.buttonForward ELSE r.buttonBackward
ReOther(r, d) == IF d = "forward" THEN r.buttonBackward ELSE r.buttonForward

\* The tick that enqueues a pulse presses the button of its direction, the
\* next tick releases it, and no other press() or release() is ever made.
C10_OnePressOneRelease ==
  LET waiting == Len(reHist) >= 2 /\ RePrev.enqueued
  IN /\ re.enqueued =>
          /\ ReOwn(re, re.matched).pressCalls = 1
          /\ ReOwn(re, re.matched).releaseCalls = 0
          /\ ReOwn(re, re.matched).pressed
          /\ NoButtonCalls(ReOther(re, re.matched))
     /\ waiting =>
          /\ ~re.enqueued
          /\ ReOwn(re, RePrev.matched).releaseCalls = 1
          /\ ReOwn(re, RePrev.matched).pressCalls = 0
          /\ ~ReOwn(re, RePrev.matched).pressed
          /\ NoButtonCalls(ReOther(re, RePrev.matched))
          /\ re.pendingForward = 0 /\ re.pendingBackward = 0
     /\ (~re.enqueued /\ ~waiting) =>
          (NoButtonCalls(re.buttonForward) /\ NoButtonCalls(re.buttonBackward))

\* C10: every enqueued pulse is delivered: one press() of the button of its
\* direction, then one release() of it, and nothing else reaches the buttons.
C10_Delivery ==
  /\ []C10_OnePressOneRelease
  /\ (re.enqueued /\ re.matched = "forward")
        ~> (re.buttonForward.releaseCalls = 1 /\ re.pendingForward = 0)
  /\ (re.enqueued /\ re.matched = "backward")
        ~> (re.buttonBackward.releaseCalls = 1 /\ re.pendingBackward = 0)

C10_Witness ==
  /\ Len(reHist) = CycleLen
  /\ reHist[1].enqueued /\ reHist[1].matched = "forward"
  /\ reHist[2].buttonForward.releaseCalls = 1
  /\ reHist[4].enqueued /\ reHist[4].matched = "backward"
  /\ reHist[4].buttonBackward.pressCalls = 1
  /\ re.buttonBackward.releaseCalls = 1 /\ ~re.buttonBackward.pressed

\* What one tick may do to the two buttons of a rotary, given what the tick
\* before did: a button the drain pressed is released and nothing is pressed,
\* and no button is pressed in both flushed states.
PacedPair(prevA, prevB, curA, curB) ==
  /\ prevA.pressCalls >= 1 =>
       /\ curA.releaseCalls >= 1 /\ ~curA.pressed
       /\ curA.pressCalls = 0 /\ curB.pressCalls = 0
  /\ prevB.pressCalls >= 1 =>
       /\ curB.releaseCalls >= 1 /\ ~curB.pressed
       /\ curA.pressCalls = 0 /\ curB.pressCalls = 0
  /\ ~(prevA.pressed /\ curA.pressed)
  /\ ~(prevB.pressed /\ curB.pressed)
  /\ curA.pressCalls + curB.pressCalls <= 1

\* C11: in PulseRotary and in RotaryEncoder a button that the drain pressed
\* on one tick is released on the next tick, on which no button is pressed;
\* so no rotary button is pressed in two consecutive flushed states, however
\* many pulses are pending.
C11_PulsePacing ==
  /\ PacedPair(prPrev.buttonUp, prPrev.buttonDown,
               pr.buttonUp, pr.buttonDown)
  /\ Len(reHist) >= 2 =>
       PacedPair(RePrev.buttonForward, RePrev.buttonBackward,
                 re.buttonForward, re.buttonBackward)

\* Two up pulses were pending when the drain pressed Up; the tick after, Up
\* is released and one pulse is still waiting.
C11_Witness ==
  /\ prPrev.pendingUp >= 2 /\ prPrev.buttonUp.pressCalls = 1
  /\ pr.buttonUp.releaseCalls = 1 /\ ~pr.buttonUp.pressed
  /\ pr.pendingUp >= 1

\* C12: a read of the virtual source of address a in 0..7 leaves bit 0 of a
\* on dout0, bit 1 on dout1 and bit 2 on dout2 and returns the data line of
\* address a, whatever the address lines held before the read.
C12_AddressThenSample ==
  mx.addr \in MuxLines =>
    /\ mx.dout0 = (bitRead(mx.addr, 0) = 1)
    /\ mx.dout1 = (bitRead(mx.addr, 1) = 1)
    /\ mx.dout2 = (bitRead(mx.addr, 2) = 1)
    /\ MuxSelected(mx) = mx.addr
    /\ mx.result = mx.data[mx.addr]

\* Source 5 was read while the lines held address 2, and line 5 differs
\* from line 2.
C12_Witness ==
  /\ mx.addr = 5
  /\ mxBefore = <<FALSE, TRUE, FALSE>>
  /\ mx.data[5] # mx.data[2]
  /\ mx.result = mx.data[5]

\* The distance around the circle between two positions, 0 and 1 being the
\* same place.
PrDistance(a, b, d) ==
  LET straight == IF a >= b THEN a - b ELSE b - a
  IN IF straight <= PrFull(d) - straight THEN straight
     ELSE PrFull(d) - straight

\* C13: a tick whose reading is more than 1/divisions away from the home
\* position, around the circle, enqueues a pulse; a tick whose reading is less
\* than 1/divisions away, or equal to the home position, enqueues none and
\* leaves the home position alone; for every home position in [0, 1].
C13_StepDetection ==
  LET dist == PrDistance(pr.val, prPrev.last, pr.divisions)
  IN /\ dist > PrStep => pr.crossed # "none"
     /\ dist < PrStep => pr.crossed = "none" /\ pr.last = prPrev.last

\* How far position a lies ahead of position b, going up around the circle.
PrAhead(a, b, d) == (a - b) % PrFull(d)

\* C14: for every home position and every reading at least stepSize away
\* from it, the pulse enqueued is an up pulse when the reading lies ahead of
\* the home position by less than half a turn, and a down pulse when it lies
\* behind by less than half a turn, the 0/1 seam included.
C14_WrapAwareDirection ==
  LET d == pr.divisions
      ahead == PrAhead(pr.val, prPrev.last, d)
      behind == PrAhead(prPrev.last, pr.val, d)
  IN /\ (ahead >= PrStep /\ ahead < PrHalf(d)) => pr.crossed # "down"
     /\ (behind >= PrStep /\ behind < PrHalf(d)) => pr.crossed # "up"

\* C15: on the tick of a crossing the opposite button is released, and the
\* button of the crossing's direction is pressed for it on that tick or, the
\* pulse being kept pending, on a later one; also when the crossing reverses
\* direction while the other button's pulse is in its pressed tick.
C15_CrossingOutput ==
  /\ pr.crossed = "up" =>
       /\ pr.buttonDown.releaseCalls >= 1 /\ ~pr.buttonDown.pressed
       /\ pr.buttonUp.pressCalls = 1 \/ pr.pendingUp >= 1
  /\ pr.crossed = "down" =>
       /\ pr.buttonUp.releaseCalls >= 1 /\ ~pr.buttonUp.pressed
       /\ pr.buttonDown.pressCalls = 1 \/ pr.pendingDown >= 1

\* The button of the OnOffOnSwitch for a position.
OoButton(s, position) ==
  IF position = UP THEN s.buttonUp
  ELSE IF position = DOWN THEN s.buttonDown
  ELSE s.buttonMiddle

\* C16: after every tick the position of the OnOffOnSwitch is Up when inUp
\* read false, otherwise Down when inDown read false, otherwise Middle; with
\* both inputs false it is Up.  The position's button is the only one that
\* can be pressed.
C16_PositionPriority ==
  ooIn # <<-1, -1>> =>
    /\ ooIn[1] = 0 => oo.last = UP
    /\ (ooIn[1] = 1 /\ ooIn[2] = 0) => oo.last = DOWN
    /\ (ooIn[1] = 1 /\ ooIn[2] = 1) => oo.last = MIDDLE
    /\ \A p \in {UP, MIDDLE, DOWN} :
         /\ OoButton(oo, p).pressCalls = 1 => p = oo.last
         /\ OoButton(oo, p).pressed => p = oo.last

\* Both inputs read false on a tick that changed the position: Up is
\* pressed, and Down, which was pressed, is released.
C16_Witness ==
  /\ ooIn = <<0, 0>>
  /\ oo.last = UP
  /\ oo.buttonUp.pressCalls = 1
  /\ oo.buttonDown.releaseCalls = 1 /\ oo.buttonDown.sinkRelease = 1

\* C17: on a tick on which the sample of the OnOffSwitch changed, the switch
\* calls press() once on the channel of the new position and nothing else on
\* it, and release() once on the other channel and nothing else on it; after
\* every tick at most one of the Up and Down buttons is pressed, with plain
\* and with momentary channels.
C17_MutualExclusion ==
  /\ (swIn # -1 /\ swIn # swPrevIn) =>
       /\ SwCurrent.pressCalls = 1 /\ SwCurrent.releaseCalls = 0
       /\ SwOther.pressCalls = 0 /\ SwOther.releaseCalls = 1
  /\ ~(sw.buttonUp.pressed /\ sw.buttonDown.pressed)

\* The switch moved: the momentary button of the position it left is
\* released and the button of the new position is pressed.
C17_Witness ==
  /\ swPrevIn # -1 /\ swIn # swPrevIn
  /\ SwOther.momentary /\ SwOther.sinkRelease = 1
  /\ SwCurrent.pressCalls = 1 /\ SwCurrent.pressed
  /\ ~SwOther.pressed

\* The calls of the last tick on the two channels of the OnOffSwitch:
\* <<Up press, Up release, Down press, Down release>>.
SwCalls ==
  <<sw.buttonUp.pressCalls, sw.buttonUp.releaseCalls,
    sw.buttonDown.pressCalls, sw.buttonDown.releaseCalls>>

\* C18, as stated: a raw sample of false means Down, so a change to raw
\* false presses Down and releases Up, and a change to raw true presses Up
\* and releases Down.
C18_FalseMeansDown ==
  (swIn # -1 /\ swIn # swPrevIn) =>
    /\ swIn = 0 => SwCalls = <<0, 1, 1, 0>>
    /\ swIn = 1 => SwCalls = <<1, 0, 0, 1>>

\* C18, amended: a raw sample of false means Up, so a change to raw false
\* presses Up and releases Down, and a change to raw true presses Down and
\* releases Up.
C18_FalseMeansUp ==
  (swIn # -1 /\ swIn # swPrevIn) =>
    /\ swIn = 0 => (SwCalls = <<1, 0, 0, 1>> /\ sw.last = UP)
    /\ swIn = 1 => (SwCalls = <<0, 1, 1, 0>> /\ sw.last = DOWN)

\* The sample went from true to false on plain buttons: Up is now pressed
\* and Down released.
C18_Witness ==
  /\ swPrevIn = 1 /\ swIn = 0
  /\ ~sw.buttonUp.momentary /\ ~sw.buttonDown.momentary
  /\ SwCalls = <<1, 0, 0, 1>>
  /\ sw.buttonUp.pressed /\ ~sw.buttonDown.pressed

\* C19: for a PushButton on a plain DxButton, after every tick the DirectX
\* button is pressed exactly when the level read on that tick was false:
\* update() calls press() once on a false sample and release() once on a
\* true one.
C19_LevelTracking ==
  (pbIn # -1 /\ ~pb.button.momentary) =>
    /\ pb.button.pressed = (pbIn = 0)
    /\ pb.button.pressCalls = (IF pbIn = 0 THEN 1 ELSE 0)
    /\ pb.button.releaseCalls = (IF pbIn = 0 THEN 0 ELSE 1)
    /\ pb.button.pressed = (pbHeld > 0)

\* The physical button has been held for MaxUpdates ticks and the DirectX
\* button is still pressed.
C19_Witness ==
  /\ ~pb.button.momentary
  /\ pbHeld = MaxUpdates /\ pbIn = 0
  /\ pb.button.pressed /\ pb.button.pressCalls = 1

\* The components in list order.
ListOrder == [c \in 1 .. componentCount |-> c]

\* C20: in every call of loop() update() is called on every component once,
\* in list order, and then Gamepad.write() once, after all updates of that
\* call and before the first update of the next call; every setup() call,
\* and Gamepad.begin(), comes before the first update().
C20_SchedulerTick ==
  \* the updates made so far in this call of loop() are a prefix of the list
  /\ Len(sch.tickUpdates) <= componentCount
  /\ sch.tickUpdates = SubSeq(ListOrder, 1, Len(sch.tickUpdates))
  \* the write comes once, after the last update
  /\ sch.tickWrites <= 1
  /\ sch.tickWrites = 1 => sch.tickUpdates = ListOrder
  /\ sch.pc = "write" => (sch.tickUpdates = ListOrder /\ sch.tickWrites = 0)
  \* a call of loop() that has ended made every update and one write
  /\ (sch.pc = "update" /\ sch.i = 1 /\ sch.begun /\ sch.tickUpdates # <<>>) =>
       (sch.tickUpdates = ListOrder /\ sch.tickWrites = 1)
  /\ sch.lastTick.updates # <<>> =>
       sch.lastTick = [updates |-> ListOrder, writes |-> 1]
  \* setup() is over before the first update()
  /\ sch.tickUpdates # <<>> =>
       /\ sch.begun
       /\ \A c \in 1 .. componentCount : sch.setupCalls[c] = 1
  /\ sch.pc \in {"setup", "begin"} =>
       (sch.tickUpdates = <<>> /\ sch.tickWrites = 0 /\ ~sch.begun)

\* In the second call of loop() the multiplexer and the PushButton have been
\* updated, the OnOffSwitch not yet; the first call wrote a report in which
\* the push button is pressed.
C20_Witness ==
  /\ sch.lastTick = [updates |-> ListOrder, writes |-> 1]
  /\ sch.tickUpdates = <<1, 2>> /\ sch.tickWrites = 0
  /\ sch.pc = "update" /\ sch.i = componentCount
  /\ sch.report.push /\ pbHeld = 2

\* C21: in every state reachable from construction by press(), release() and
\* update() calls, for every duration, the MomentaryButton's countdown is at
\* least 0, and the inner button is pressed whenever the countdown is above 0.
C21_MomentaryInvariant ==
  /\ mb.countdown >= 0
  /\ mb.countdown > 0 => mb.pressed

\* The transition of one phase between two samples, as the code tags it:
\* <<tag>> for rising, <<-tag>> for falling, <<>> for none.
ReTransition(before, after, tag) ==
  IF after /\ ~before THEN <<tag>>
  ELSE IF ~after /\ before THEN <<-tag>>
  ELSE <<>>

\* The last two recorded transitions when the last tick looked for a step:
\* what the tick before left in the slots, then the transitions of the last
\* tick's samples, phase 1 before phase 2.
ReRecorded ==
  LET all == <<RePrev.penultimateEvent, RePrev.lastEvent>>
               \o ReTransition(RePrev.val1, re.val1, 1)
               \o ReTransition(RePrev.val2, re.val2, 2)
  IN SubSeq(all, Len(all) - 1, Len(all))

\* A pulse of direction d was enqueued by the last tick.
ReEnqueued(d) == re.enqueued /\ re.matched = d

\* The queue of direction d had room when the last tick looked for a step.
ReRoom(d) ==
  IF d = "forward" THEN RePrev.pendingForward < re.queueLimit
  ELSE RePrev.pendingBackward < re.queueLimit

\* C22, as stated: a forward pulse is enqueued exactly when the last two
\* recorded transitions are falling-on-2 and then falling-on-1, a backward
\* pulse exactly when they are falling-on-1 and then falling-on-2 (a full
\* queue aside).
C22_Falling2ThenFalling1 ==
  Len(reHist) >= 2 =>
    /\ ReEnqueued("forward") = (ReRecorded = <<-2, -1>> /\ ReRoom("forward"))
    /\ ReEnqueued("backward") =
         (ReRecorded = <<-1, -2>> /\ ReRoom("backward"))

\* C22, amended: a forward pulse is enqueued exactly when the last two
\* recorded transitions are falling-on-1 and then falling-on-2 and the
\* forward queue has room, a backward pulse exactly when they are
\* falling-on-2 and then falling-on-1 and the backward queue has room.
C22_PairingRule ==
  Len(reHist) >= 2 =>
    /\ ReEnqueued("forward") = (ReRecorded = <<-1, -2>> /\ ReRoom("forward"))
    /\ ReEnqueued("backward") =
         (ReRecorded = <<-2, -1>> /\ ReRoom("backward"))
    /\ ReEnqueued("forward") => re.pendingForward >= 1
    /\ ReEnqueued("backward") => re.pendingBackward >= 1

\* Phase 1 fell on the tick before and phase 2 fell on the last tick: a
\* forward pulse is enqueued.
C22_Witness ==
  /\ Len(reHist) >= 3
  /\ RePrev.lastEvent = -1
  /\ RePrev.val2 /\ ~re.val2 /\ ~re.val1 /\ ~RePrev.val1
  /\ ReEnqueued("forward")
  /\ re.buttonForward.pressCalls = 1

\* C23: a virtual source with an address outside 0..7 is rejected when it is
\* created, so no such source is ever read, and address 8 + k is never read
\* as address k.
C23_AddressValidation ==
  /\ mx.addr \in MuxLines \cup {-1}
  /\ mx.addr > 7 => MuxSelected(mx) # mx.addr - 8

\* C24: a RotaryEncoder constructed with queueLimit < 1 ends in an error at
\* construction: update() never runs on it and it never decodes a step.
C24_FailFast ==
  re.queueLimit < 1 => (Len(reHist) = 1 /\ re.matched = "none")

\* A sample or threshold clamped to [0, 1]
SrClamp(v) == IF v < 0 THEN 0 ELSE IF v > AnalogRes THEN AnalogRes ELSE v

\* <<on press, on release, off press, off release>> calls of the last tick
SrCalls(s) ==
  <<s.buttonOn.pressCalls, s.buttonOn.releaseCalls,
    s.buttonOff.pressCalls, s.buttonOff.releaseCalls>>

\* The SwitchingRotary after the last tick, had its threshold and all its
\* samples been clamped to [0, 1].
SrClampedTwin ==
  LET before == [NewSwitchingRotary(NewDxButton, NewDxButton,
                                    SrClamp(sr.threshold))
                   EXCEPT !.last = IF srPrev = -AnalogRes THEN srPrev
                                   ELSE SrClamp(srPrev)]
  IN SwitchingRotaryUpdate(before, SrClamp(srVal))

\* A value within [0, 1]
RatInUnit(q) ==
  ~IsNaN(q) /\ ~RatLess(q, <<0, 1>>) /\ ~RatLess(<<1, 1>>, q)

\* C25, as stated: with a threshold or a sample outside [0, 1] every tick
\* makes the button calls and hands the axis the value that it would with
\* the threshold and the samples clamped to [0, 1], and the value handed to
\* the axis encoding is within [0, 1].
C25_ClampedBeforeUse ==
  srVal # -AnalogRes =>
    /\ SrCalls(sr) = SrCalls(SrClampedTwin)
    /\ RatEq(sr.axis, SrClampedTwin.axis)
    /\ RatInUnit(sr.axis)

\* C25, amended: threshold and sample are used as they are, in the
\* comparisons and in the scaling; only the scaled value is clamped, so
\* every tick hands the axis encoding one value within [0, 1]: 0 below the
\* threshold, else (val - threshold)/(1 - threshold) cut to [0, 1] (0 when
\* that quotient is 0/0).
C25_ClampedReport ==
  srVal # -AnalogRes =>
    LET t == sr.threshold
        q == <<srVal - t, AnalogRes - t>>
    IN /\ sr.reports = 1
       /\ RatInUnit(sr.axis)
       /\ (srVal > t /\ srPrev < t) => SrCalls(sr) = <<1, 0, 0, 1>>
       /\ (srVal < t /\ srPrev > t) => SrCalls(sr) = <<0, 1, 1, 0>>
       /\ srVal < t => RatEq(sr.axis, <<0, 1>>)
       /\ (srVal >= t /\ RatInUnit(q)) => RatEq(sr.axis, q)
       /\ (srVal >= t /\ RatLess(<<1, 1>>, q)) => RatEq(sr.axis, <<1, 1>>)
       /\ (srVal >= t /\ (IsNaN(q) \/ RatLess(q, <<0, 1>>))) =>
            RatEq(sr.axis, <<0, 1>>)

\* The threshold is below 0 and the sample went from below it to above 1:
\* On is pressed and the axis gets 1, not the larger quotient.
C25_Witness ==
  /\ sr.threshold < 0 /\ srPrev < sr.threshold /\ srPrev # -AnalogRes
  /\ srVal > AnalogRes
  /\ SrCalls(sr) = <<1, 0, 0, 1>>
  /\ RatEq(sr.axis, <<1, 1>>)

\* C26: on every tick each component calls update() exactly once on each of
\* its Button channels; this is stated for PushButton, OnOffSwitch,
\* OnOffOnSwitch, SwitchingRotary, PulseRotary and RotaryEncoder.
C26_UpdateCadence ==
  /\ pbIn # -1 => pb.button.updateCalls = 1
  /\ swIn # -1 =>
       (sw.buttonUp.updateCalls = 1 /\ sw.buttonDown.updateCalls = 1)
  /\ ooIn # <<-1, -1>> =>
       /\ oo.buttonUp.updateCalls = 1 /\ oo.buttonMiddle.updateCalls = 1
       /\ oo.buttonDown.updateCalls = 1
  /\ srVal # -AnalogRes =>
       (sr.buttonOn.updateCalls = 1 /\ sr.buttonOff.updateCalls = 1)
  /\ pr # prPrev =>
       (pr.buttonUp.updateCalls = 1 /\ pr.buttonDown.updateCalls = 1)
  /\ Len(reHist) >= 2 =>
       /\ re.buttonForward.updateCalls = 1
       /\ re.buttonBackward.updateCalls = 1

\* C27: the first update() of an OnOffSwitch makes one press() call and one
\* release() call whatever the sample is: press() on the channel of the
\* sampled position, release() on the other channel.
C27_FirstTick ==
  (swIn # -1 /\ swPrevIn = -1) =>
    /\ SwCalls \in {<<1, 0, 0, 1>>, <<0, 1, 1, 0>>}
    /\ SwCurrent.pressCalls = 1 /\ SwCurrent.pressed
    /\ SwOther.releaseCalls = 1 /\ ~SwOther.pressed
    /\ sw.last # NONE

\* The first sample is true and the channels are plain: Down is pressed, and
\* Up, which was never pressed, is released.
C27_Witness ==
  /\ swPrevIn = -1 /\ swIn = 1
  /\ ~sw.buttonUp.momentary /\ ~sw.buttonDown.momentary
  /\ SwCalls = <<0, 1, 1, 0>>
  /\ sw.buttonDown.pressed /\ sw.buttonUp.sinkRelease = 1

\* The position that a pair of samples stands for.
OoPosition(in) ==
  IF in[1] = 0 THEN UP ELSE IF in[2] = 0 THEN DOWN ELSE MIDDLE

\* <<press, release>> calls of the last tick on the button of a position
OoCalls(p) == <<OoButton(oo, p).pressCalls, OoButton(oo, p).releaseCalls>>

\* C28: on the first tick and on every tick whose position differs from the
\* position of the tick before, the OnOffOnSwitch calls press() on the
\* channel of the new position and release() on the other two, once each; on
\* a tick with the same position it makes no press() or release() call;
\* after every tick at most one of the three buttons is pressed.
C28_EdgeTriggeredExclusivity ==
  /\ ooIn # <<-1, -1>> =>
       LET changed == \/ ooPrevIn = <<-1, -1>>
                      \/ OoPosition(ooIn) # OoPosition(ooPrevIn)
       IN \A p \in {UP, MIDDLE, DOWN} :
            OoCalls(p) = IF ~changed THEN <<0, 0>>
                         ELSE IF p = OoPosition(ooIn) THEN <<1, 0>>
                         ELSE <<0, 1>>
  /\ \A p, q \in {UP, MIDDLE, DOWN} :
       (OoButton(oo, p).pressed /\ OoButton(oo, q).pressed) => p = q

\* inDown went from true to false while inUp stayed false: the position is
\* Up as before, nothing is called and the plain Up button stays pressed.
C28_Witness ==
  /\ ooPrevIn = <<0, 1>> /\ ooIn = <<0, 0>>
  /\ \A p \in {UP, MIDDLE, DOWN} : OoCalls(p) = <<0, 0>>
  /\ ~oo.buttonUp.momentary /\ oo.buttonUp.pressed

\* The calls that update() makes for a sample equal to the threshold when
\* the sample before it was prev.
SrCallsAtThreshold(prev) ==
  SrCalls(SwitchingRotaryUpdate([sr EXCEPT !.last = prev], sr.threshold))

\* C29, as stated: for a sample equal to the threshold there is a previous
\* sample for which neither transition fires, and a previous sample for
\* which the on transition and the off transition both fire in the same
\* update().
C29_NeitherOrBoth ==
  /\ \E prev \in Samples : SrCallsAtThreshold(prev) = <<0, 0, 0, 0>>
  /\ \E prev \in Samples :
       LET calls == SrCallsAtThreshold(prev)
       IN calls[1] >= 1 /\ calls[2] >= 1 /\ calls[3] >= 1 /\ calls[4] >= 1

\* C29, amended: for a sample equal to the threshold the on transition
\* fires when the previous sample was below the threshold, the off
\* transition when it was above, and neither when it was equal to it; no
\* update() fires both.
C29_NeitherOrOne ==
  /\ srVal = sr.threshold =>
       /\ srPrev < sr.threshold => SrCalls(sr) = <<1, 0, 0, 1>>
       /\ srPrev > sr.threshold => SrCalls(sr) = <<0, 1, 1, 0>>
       /\ srPrev = sr.threshold => SrCalls(sr) = <<0, 0, 0, 0>>
  /\ SrCalls(sr) \in {<<0, 0, 0, 0>>, <<1, 0, 0, 1>>, <<0, 1, 1, 0>>}
  /\ \A prev \in Samples :
       SrCallsAtThreshold(prev) \in
         {<<0, 0, 0, 0>>, <<1, 0, 0, 1>>, <<0, 1, 1, 0>>}

\* Two samples in a row equal the threshold, after On was pressed: the
\* second one fires nothing.
C29_Witness ==
  /\ srVal = sr.threshold /\ srPrev = sr.threshold
  /\ SrCalls(sr) = <<0, 0, 0, 0>>
  /\ ~sr.buttonOn.momentary /\ sr.buttonOn.pressed


\* The number of transitions that the k-th tick of the history recorded.
ReRecordedAt(k) ==
  Len(ReTransition(reHist[k - 1].val1, reHist[k].val1, 1))
    + Len(ReTransition(reHist[k - 1].val2, reHist[k].val2, 2))

RECURSIVE ReRecordedSince(_)
\* The number of transitions recorded by the ticks after the k-th of the
\* history.
ReRecordedSince(k) ==
  IF k >= Len(reHist) THEN 0 ELSE ReRecordedAt(k + 1) + ReRecordedSince(k + 1)

\* C30: right after a forward or backward match both event slots are empty,
\* and a tick that follows a match detects no step (so enqueues no pulse)
\* unless at least two transitions were recorded since that match.
C30_SlotClearing ==
  /\ re.matched # "none" => re.lastEvent = 0 /\ re.penultimateEvent = 0
  /\ re.enqueued => re.matched # "none"
  /\ \A k \in 1 .. Len(reHist) - 1 :
       reHist[k].matched # "none" /\ re.matched # "none" =>
         ReRecordedSince(k) >= 2

\* The tick before detected a forward step and the last tick saw phase 1
\* rise: the rise is the only event in the slots.
C30_Witness ==
  /\ Len(reHist) >= 3
  /\ RePrev.matched = "forward" /\ RePrev.enqueued
  /\ re.val1 /\ ~RePrev.val1 /\ re.val2 = RePrev.val2
  /\ re.matched = "none"
  /\ re.lastEvent = 1 /\ re.penultimateEvent = 0


\* C31: two panels that hold the same components in different list orders,
\* two of them on virtual sources of one multiplexer, send the same button
\* and axis state on every tick when their pins carry the same levels.
C31_OrderIndependence ==
  /\ od.runs[1].report = od.runs[2].report
  /\ od.runs[1].pb = od.runs[2].pb
  /\ od.runs[1].sw = od.runs[2].sw
  /\ od.runs[1].sr = od.runs[2].sr

\* The second panel updates the OnOffSwitch before the PushButton, the two
\* read different virtual sources that carry different levels, and both
\* panels report the PushButton and Up pressed and the rotary on.
C31_Witness ==
  /\ \E i, j \in 1 .. Len(OrderBase) :
       /\ i < j
       /\ od.lists[2][i] = "OnOffSwitch" /\ od.lists[2][j] = "PushButton"
  /\ od.runs[1].pb.in # od.runs[1].swIn
  /\ ~od.data[od.runs[1].pb.in] /\ od.data[od.runs[1].swIn]
  /\ od.val = AnalogRes
  /\ od.runs[2].report.push /\ ~od.runs[2].report.up
  /\ od.runs[2].report.down /\ od.runs[2].report.on
  /\ od.runs[1].mx.addr # od.runs[2].mx.addr


\* The transition that fired last, "on" | "off" | "none", read off two plain
\* DxButtons: on leaves On pressed and Off released, off the reverse.
SrLastFired ==
  IF sr.buttonOn.pressed /\ ~sr.buttonOff.pressed THEN "on"
  ELSE IF sr.buttonOff.pressed /\ ~sr.buttonOn.pressed THEN "off"
  ELSE "none"

\* C32: whenever the current sample is strictly above the threshold the
\* transition that fired last is on, and whenever it is strictly below the
\* threshold and some transition has fired, the last one is off.
C32_FollowsPosition ==
  ~sr.buttonOn.momentary /\ ~sr.buttonOff.momentary /\ srVal >= 0 =>
    /\ srVal > sr.threshold => SrLastFired = "on"
    /\ srVal < sr.threshold /\ SrLastFired # "none" => SrLastFired = "off"


\* C33: the forward and the backward button of a RotaryEncoder are never
\* both pressed in the sink.
C33_ButtonExclusion ==
  ~(re.buttonForward.pressed /\ re.buttonBackward.pressed)

\* The forward button was pressed within the last few ticks and released
\* again, and the last tick pressed the backward button.
C33_Witness ==
  /\ \E k \in 1 .. Len(reHist) - 1 : reHist[k].buttonForward.pressed
  /\ re.buttonBackward.pressed /\ ~re.buttonForward.pressed
  /\ re.buttonBackward.pressCalls = 1


\* Neither input changed on the last tick.
ReQuiet(k) ==
  /\ reHist[k].val1 = reHist[k - 1].val1
  /\ reHist[k].val2 = reHist[k - 1].val2

\* The ticks that r still needs to deliver its pending pulses: two per
\* pulse, one less when the button of the first one is already pressed.
ReLoad(r) ==
  2 * (r.pendingForward + r.pendingBackward) - (IF r.pressed THEN 1 ELSE 0)

\* Nothing is pending, both buttons are released and _pressed is false.
ReAtRest(r) ==
  /\ r.pendingForward = 0 /\ r.pendingBackward = 0
  /\ ~r.buttonForward.pressed /\ ~r.buttonBackward.pressed
  /\ ~r.pressed

\* C34: once neither input changes any more, the encoder comes to rest
\* (nothing pending, both buttons released, _pressed false) within two
\* ticks per pending pulse plus two, and stays at rest on every later tick
\* without an input change.
C34_Quiescence ==
  /\ ReLoad(re) >= 0
  /\ ReLoad(re) = 0 => ReAtRest(re)
  /\ Len(reHist) >= 2 /\ ReQuiet(Len(reHist)) =>
       /\ ReLoad(RePrev) > 0 => ReLoad(re) = ReLoad(RePrev) - 1
       /\ ReAtRest(RePrev) => ReAtRest(re)
  /\ \A k \in 1 .. Len(reHist) - 1 :
       /\ \A j \in k + 1 .. Len(reHist) : ReQuiet(j)
       /\ Len(reHist) - k
            >= 2 * (reHist[k].pendingForward + reHist[k].pendingBackward) + 2
       => ReAtRest(re)

\* A backward pulse was pending, its button pressed, when the inputs stopped
\* changing: the next tick released it, and the one after left the encoder
\* at rest.
C34_Witness ==
  /\ Len(reHist) >= 3
  /\ ReQuiet(Len(reHist)) /\ ReQuiet(Len(reHist) - 1)
  /\ reHist[Len(reHist) - 2].pendingBackward = 1
  /\ reHist[Len(reHist) - 2].buttonBackward.pressed
  /\ ReAtRest(RePrev) /\ RePrev.buttonBackward.releaseCalls = 1
  /\ ReAtRest(re)


\* C35: after a press() that came while a countdown was running, the
\* countdown is the duration again; update() calls inner.release() on the
\* duration-th update() after that press() and on no other; that is the one
\* automatic release since the burst of presses began; and the countdown
\* stays within 0 .. duration.
C35_RepressRestarts ==
  (mbPhase = "pressed" /\ mbRepressed) =>
     /\ mbLast = "press" => mb.countdown = mb.duration
     /\ mbReleasedOn = IF mbUpdates >= mb.duration
                         THEN <<mb.duration>> ELSE <<>>
     /\ mbAuto = IF mbUpdates >= mb.duration THEN 1 ELSE 0
     /\ mb.pressed = (mbUpdates < mb.duration)
     /\ mb.countdown >= 0 /\ mb.countdown <= mb.duration

\* A button of the longest duration was pressed again while it counted down,
\* and released itself on the duration-th update() after that.
C35_Witness ==
  /\ mbPhase = "pressed" /\ mbRepressed
  /\ mb.duration = MaxDuration
  /\ mbLast = "update" /\ mbUpdates = MaxDuration
  /\ mbReleasedOn = <<MaxDuration>> /\ mbAuto = 1
  /\ ~mb.pressed


\* C36: on a MomentaryButton on which press() has never been called, an
\* update() calls neither inner.press() nor inner.release().
C36_StartsIdle ==
  ~mbPressedEver /\ mbLast = "update" =>
    /\ mb.sinkPress = 0 /\ mb.sinkRelease = 0
    /\ mbReleasedOn = <<>>


\* C37: the up and the down button of a PulseRotary are never both pressed
\* in the sink, and pendingUp and pendingDown are never negative and never
\* both above 0.
C37_PulseExclusion ==
  /\ ~(pr.buttonUp.pressed /\ pr.buttonDown.pressed)
  /\ pr.pendingUp >= 0 /\ pr.pendingDown >= 0
  /\ ~(pr.pendingUp > 0 /\ pr.pendingDown > 0)

\* The knob was turned back while the up button was pressed for a pending
\* up pulse: the crossing released the up button and emptied the up queue.
C37_Witness ==
  /\ prPrev.buttonUp.pressed /\ prPrev.pendingUp > 0
  /\ pr.crossed = "down"
  /\ pr.pendingUp = 0
  /\ ~pr.buttonUp.pressed /\ ~pr.buttonDown.pressed


\* Both phases changed on the last tick.
ReBothChanged ==
  /\ Len(reHist) >= 2
  /\ re.val1 # RePrev.val1 /\ re.val2 # RePrev.val2

\* C38: when both phases change within one tick the transition on in1 is
\* recorded before the one on in2, so a tick on which both phases fall is
\* taken as a forward step: it enqueues a forward pulse unless the forward
\* queue is full, and never a backward one.
C38_SameTickEdges ==
  ReBothChanged =>
    /\ re.matched = "none" =>
         /\ re.penultimateEvent = (IF re.val1 THEN 1 ELSE -1)
         /\ re.lastEvent = (IF re.val2 THEN 2 ELSE -2)
    /\ ~re.val1 /\ ~re.val2 =>
         /\ re.matched = "forward"
         /\ ReEnqueued("forward") = ReRoom("forward")
         /\ ReRoom("forward") => re.pendingForward = RePrev.pendingForward + 1
         /\ ~ReEnqueued("backward")
         /\ re.pendingBackward <= RePrev.pendingBackward

\* Both phases fell on the last tick, and a forward pulse was enqueued and
\* its button pressed.
C38_Witness ==
  /\ ReBothChanged
  /\ ~re.val1 /\ ~re.val2
  /\ ReEnqueued("forward")
  /\ re.buttonForward.pressCalls = 1 /\ re.buttonForward.pressed


C40_AxisEncoding ==
  ax.val # <<-1, 1>> =>
    /\ ax.val[1] = 0 => ax.out16 = -32768 /\ ax.out8 = -128
    /\ RatEq(ax.val, <<1, 1>>) => ax.out16 = 32767 /\ ax.out8 = 127
    /\ ax.before.val # <<-1, 1>> /\ ~RatLess(ax.val, ax.before.val) =>
         ax.out16 >= ax.before.out16 /\ ax.out8 >= ax.before.out8

=============================================================================
